---------------------------- MODULE Spec2Model ----------------------------
(***************************************************************************)
(* A model of the chessica board kernel: the bitboard primitives, the      *)
(* Zobrist hash, make/unmake (push/pop), the legal move generator, FEN     *)
(* input/output and the UCI move text, translated from                     *)
(* src/chessica/src/{board,bitboard,square,lib,zobrist,history,magic}.rs.  *)
(*                                                                         *)
(* Representation.  A BitBoard (u64) is the set of the squares whose bit   *)
(* is set; a Square is its ordinal 0..63; an Option<Square> is a set with  *)
(* at most one square; an Option<Piece> is a piece name or "None".  A      *)
(* Zobrist value is the set of the key ids XOR-ed into it an odd number of *)
(* times: the keys are fresh random u64 values at every process start, and *)
(* XOR of keys is symmetric difference of key sets under every choice of   *)
(* the key values.  A text (a FEN) is a sequence of one-character strings. *)
(***************************************************************************)
EXTENDS Integers, Sequences, FiniteSets, TLC

VARIABLES
    board,      \* the driver's Board (every field of struct Board)
    last,       \* the last operation the driver applied to it
    saved,      \* the caller's clone of the Board taken before the last push
    ops,        \* number of operations applied so far
    fen,        \* FEN driver: the text handed to parse_fen
    parsed,     \* FEN driver: what parse_fen returned for it
    tt,         \* the engine's TranspositionTable (size and entries)
    search,     \* the engine's Search object (max_depth, last_pv, counters)
    out,        \* what the last engine operation returned
    stored,     \* per position hash, the last put that wrote its slot
    positions   \* the positions the engine driver works on

vars == <<board, last, saved, ops, fen, parsed, tt, search, out, stored,
         positions>>

\* the engine's part of the state, which the Board drivers leave alone
engine == <<tt, search, out, stored, positions>>

----------------------------------------------------------------------------
(* Square, Side, Piece                                                      *)

Squares == 0 .. 63

rank(s) == s \div 8

file(s) == s % 8

from_coords(r, f) == r * 8 + f

\* Square::delta: None when the target is off the board
delta(s, rank_delta, file_delta) ==
    LET new_rank == rank(s) + rank_delta
        new_file == file(s) + file_delta
    IN  IF new_rank < 0 \/ new_rank > 7 \/ new_file < 0 \/ new_file > 7
        THEN {}
        ELSE {from_coords(new_rank, new_file)}

Sides == {"White", "Black"}

Pieces == {"Pawn", "Knight", "Bishop", "Rook", "Queen", "King"}

other(side) == IF side = "White" THEN "Black" ELSE "White"

\* enum Piece { Pawn = 1, Knight, Bishop, Rook, Queen, King }
PieceOrd(p) ==
    CASE p = "Pawn" -> 1 [] p = "Knight" -> 2 [] p = "Bishop" -> 3
      [] p = "Rook" -> 4 [] p = "Queen" -> 5 [] p = "King" -> 6

value(p) ==
    CASE p = "Pawn" -> 100 [] p = "Knight" -> 300 [] p = "Bishop" -> 300
      [] p = "Rook" -> 500 [] p = "Queen" -> 900 [] p = "King" -> 10000

----------------------------------------------------------------------------
(* Bitboard primitives                                                      *)

RANK(i) == {s \in Squares : rank(s) = i}

FILE(i) == {s \in Squares : file(s) = i}

Min(bb) == CHOOSE x \in bb : \A y \in bb : x <= y

\* impl Iterator for BitBoard: the squares, lowest ordinal first
RECURSIVE BitScan(_)
BitScan(bb) ==
    IF bb = {} THEN <<>>
    ELSE LET s == Min(bb) IN <<s>> \o BitScan(bb \ {s})

\* u64 shifts: a bit shifted past bit 63 or below bit 0 is dropped
pawn_pushes(bb, side) ==
    IF side = "White" THEN {s + 8 : s \in {t \in bb : t + 8 <= 63}}
    ELSE {s - 8 : s \in {t \in bb : t - 8 >= 0}}

pawn_left_captures(bb, side) ==
    IF side = "White"
    THEN {s + 7 : s \in {t \in bb : file(t) # 0 /\ t + 7 <= 63}}
    ELSE {s - 7 : s \in {t \in bb : file(t) # 7 /\ t - 7 >= 0}}

pawn_right_captures(bb, side) ==
    IF side = "White"
    THEN {s + 9 : s \in {t \in bb : file(t) # 7 /\ t + 9 <= 63}}
    ELSE {s - 9 : s \in {t \in bb : file(t) # 0 /\ t - 9 >= 0}}

pawn_captures(bb, side) ==
    pawn_left_captures(bb, side) \cup pawn_right_captures(bb, side)

----------------------------------------------------------------------------
(* Attack masks (crate::masks): the fixed tables indexed by square          *)

Abs(x) == IF x < 0 THEN -x ELSE x

KNIGHTS_MOVE(s) ==
    {t \in Squares : LET dr == Abs(rank(t) - rank(s))
                         df == Abs(file(t) - file(s))
                     IN  (dr = 1 /\ df = 2) \/ (dr = 2 /\ df = 1)}

KINGS_MOVE(s) ==
    {t \in Squares : t # s /\ Abs(rank(t) - rank(s)) <= 1
                           /\ Abs(file(t) - file(s)) <= 1}

BISHOPS_MOVE(s) ==
    {t \in Squares : t # s /\ Abs(rank(t) - rank(s)) = Abs(file(t) - file(s))}

ROOKS_MOVE(s) ==
    {t \in Squares : t # s /\ (rank(t) = rank(s) \/ file(t) = file(s))}

\* the rectangle spanned by the two squares, corners included
BOUNDING_BOX(a, b) ==
    {t \in Squares :
        /\ (rank(a) <= rank(t) /\ rank(t) <= rank(b)) \/ (rank(b) <= rank(t) /\ rank(t) <= rank(a))
        /\ (file(a) <= file(t) /\ file(t) <= file(b)) \/ (file(b) <= file(t) /\ file(t) <= file(a))}

\* the three files ahead of a pawn, from the pawn's perspective
WHITE_PASSED_PAWN_ZONE(s) ==
    {t \in Squares : rank(t) > rank(s) /\ Abs(file(t) - file(s)) <= 1}

BLACK_PASSED_PAWN_ZONE(s) ==
    {t \in Squares : rank(t) < rank(s) /\ Abs(file(t) - file(s)) <= 1}

----------------------------------------------------------------------------
(* Sliding attacks (magic.rs)                                               *)

ROOK == <<<<0, 1>>, <<1, 0>>, <<0, -1>>, <<-1, 0>>>>

BISHOP == <<<<-1, -1>>, <<-1, 1>>, <<1, -1>>, <<1, 1>>>>

\* the inner while loop of Slider::moves along one delta
RECURSIVE SliderRay(_, _, _, _)
SliderRay(current, rank_delta, file_delta, blockers) ==
    LET next == delta(current, rank_delta, file_delta)
    IN  IF next = {} THEN {}
        ELSE IF next \subseteq blockers THEN next
        ELSE next \cup SliderRay(Min(next), rank_delta, file_delta, blockers)

SliderMoves(slider, square, blockers) ==
    UNION {SliderRay(square, slider[i][1], slider[i][2], blockers) : i \in 1 .. 4}

blocker_mask(slider, square) ==
    SliderMoves(slider, square, {})
        \ ((IF rank(square) # 0 THEN RANK(0) ELSE {})
            \cup (IF rank(square) # 7 THEN RANK(7) ELSE {})
            \cup (IF file(square) # 0 THEN FILE(0) ELSE {})
            \cup (IF file(square) # 7 THEN FILE(7) ELSE {}))

\* MagicBitBoardTable::get_moves: the table slot of (all_pieces & blocker_mask)
\* holds Slider::moves for that blocker subset (try_make_magic_table).
get_moves(slider, square, all_pieces) ==
    SliderMoves(slider, square, all_pieces \cap blocker_mask(slider, square))

bishop_moves(square, all_pieces) == get_moves(BISHOP, square, all_pieces)

rook_moves(square, all_pieces) == get_moves(ROOK, square, all_pieces)

----------------------------------------------------------------------------
(* Zobrist hash (zobrist.rs): key ids                                       *)

SideIdx(side) == IF side = "White" THEN 0 ELSE 1

piece_keys(side, piece, square) ==
    (SideIdx(side) * 6 + (PieceOrd(piece) - 1)) * 64 + square

short_castling_keys(side) == 768 + SideIdx(side)

long_castling_keys(side) == 770 + SideIdx(side)

en_passant_file_keys(f) == 772 + f

black_to_move_key == 780

\* value ^= key
Xor(h, k) == IF k \in h THEN h \ {k} ELSE h \cup {k}

\* value ^= key for every key of a set of distinct keys
XorAll(h, keys) == (h \ keys) \cup (keys \ h)

flip_piece(h, side, piece, square) == Xor(h, piece_keys(side, piece, square))

flip_ep_file(h, f) == Xor(h, en_passant_file_keys(f))

flip_long_castling(h, side) == Xor(h, long_castling_keys(side))

flip_short_castling(h, side) == Xor(h, short_castling_keys(side))

flip_black_to_move(h) == Xor(h, black_to_move_key)

----------------------------------------------------------------------------
(* Piece-square evaluator (crate::pst): a running signed sum                *)

PstTerm(side, piece, square) ==
    LET sq == IF side = "White" THEN square ELSE from_coords(7 - rank(square), file(square))
        v  == value(piece) + rank(sq)
    IN  IF side = "White" THEN v ELSE -v

pst_add_piece(acc, side, piece, square) == acc + PstTerm(side, piece, square)

pst_remove_piece(acc, side, piece, square) == acc - PstTerm(side, piece, square)

----------------------------------------------------------------------------
(* Repetition history (history.rs): Counter<u64, u8>, a map hash -> count   *)

\* the counts of the Counter<u64, u8>, and half_move_clock, are u8
U8 == 256

HistoryNew == [h \in {} |-> 0]

HistoryCount(hc, h) == IF h \in DOMAIN hc THEN hc[h] ELSE 0

\* hash_counter[&h] += 1 (IndexMut inserts a zero entry for a new key); the
\* addition wraps in a build without overflow checks
HistoryPush(hc, h) == (h :> (HistoryCount(hc, h) + 1) % U8) @@ hc

\* hash_counter[&h] -= 1: the entry stays in the map, also at zero
HistoryPop(hc, h) == (h :> HistoryCount(hc, h) - 1) @@ hc

----------------------------------------------------------------------------
(* Board (board.rs): fields, flags, piece placement                        *)

back_rank(side) == IF side = "White" THEN 0 ELSE 7

pawn_double_push_rank(side) == IF side = "White" THEN 3 ELSE 4

short_castling_flag(side) == IF side = "White" THEN 1 ELSE 2

long_castling_flag(side) == IF side = "White" THEN 4 ELSE 8

\* castling_rights & flag != 0, for a one-bit flag
HasFlag(castling_rights, flag) == (castling_rights \div flag) % 2 = 1

\* castling_rights &= !flag
ClearFlag(castling_rights, flag) ==
    IF HasFlag(castling_rights, flag) THEN castling_rights - flag ELSE castling_rights

can_castle_short(b, side) == HasFlag(b.castling_rights, short_castling_flag(side))

can_castle_long(b, side) == HasFlag(b.castling_rights, long_castling_flag(side))

ColourField(side) == IF side = "White" THEN "white_pieces" ELSE "black_pieces"

KindField(p) ==
    CASE p = "Pawn" -> "pawns" [] p = "Knight" -> "knights" [] p = "Bishop" -> "bishops"
      [] p = "Rook" -> "rooks" [] p = "Queen" -> "queens" [] p = "King" -> "kings"

get_pieces(b, side) == IF side = "White" THEN b.white_pieces ELSE b.black_pieces

get_piece(b, side, square) ==
    IF square \notin get_pieces(b, side) THEN "None"
    ELSE IF square \in b.pawns THEN "Pawn"
    ELSE IF square \in b.bishops THEN "Bishop"
    ELSE IF square \in b.knights THEN "Knight"
    ELSE IF square \in b.rooks THEN "Rook"
    ELSE IF square \in b.queens THEN "Queen"
    ELSE IF square \in b.kings THEN "King"
    ELSE "None"

add_piece(b, side, piece, square) ==
    [b EXCEPT ![ColourField(side)] = @ \cup {square},
              ![KindField(piece)] = @ \cup {square},
              !.z_hash = flip_piece(@, side, piece, square),
              !.pst_eval = pst_add_piece(@, side, piece, square)]

\* remove_piece that clears the square for the side only
remove_piece_keeps_kind(b, side, piece, square) ==
    [b EXCEPT ![ColourField(side)] = @ \ {square},
              !.z_hash = flip_piece(@, side, piece, square),
              !.pst_eval = pst_remove_piece(@, side, piece, square)]

remove_piece(b, side, piece, square) ==
    [b EXCEPT ![ColourField(side)] = @ \ {square},
              ![KindField(piece)] = @ \ {square},
              !.z_hash = flip_piece(@, side, piece, square),
              !.pst_eval = pst_remove_piece(@, side, piece, square)]

\* if castling_rights & flag != 0 { castling_rights &= !flag; flip the key }
DropLong(b, side) ==
    IF HasFlag(b.castling_rights, long_castling_flag(side))
    THEN [b EXCEPT !.castling_rights = ClearFlag(@, long_castling_flag(side)),
                   !.z_hash = flip_long_castling(@, side)]
    ELSE b

DropShort(b, side) ==
    IF HasFlag(b.castling_rights, short_castling_flag(side))
    THEN [b EXCEPT !.castling_rights = ClearFlag(@, short_castling_flag(side)),
                   !.z_hash = flip_short_castling(@, side)]
    ELSE b

apply_move(b, side, piece, from, to) ==
    LET b1 == add_piece(remove_piece(b, side, piece, from), side, piece, to)
    IN  CASE piece = "King" -> DropShort(DropLong(b1, side), side)
          [] piece = "Rook" ->
                IF rank(from) = back_rank(side)
                THEN CASE file(from) = 0 -> DropLong(b1, side)
                       [] file(from) = 7 -> DropShort(b1, side)
                       [] OTHER -> b1
                ELSE b1
          [] OTHER -> b1

undo_move(b, side, piece, from, to) ==
    add_piece(remove_piece(b, side, piece, to), side, piece, from)

\* a capture that leaves the castling rights alone
capture_keeps_rights(b, side, piece, square) ==
    remove_piece(b, side, piece, square)

apply_capture(b, side, piece, square) ==
    LET b1 == remove_piece(b, side, piece, square)
    IN  IF piece = "Rook" /\ rank(square) = back_rank(side)
        THEN CASE file(square) = 0 -> DropLong(b1, side)
               [] file(square) = 7 -> DropShort(b1, side)
               [] OTHER -> b1
        ELSE b1

undo_capture(b, side, piece, square) == add_piece(b, side, piece, square)

apply_promotion(b, side, from, to, promotion) ==
    add_piece(remove_piece(b, side, "Pawn", from), side, promotion, to)

undo_promotion(b, side, from, to, promotion) ==
    add_piece(remove_piece(b, side, promotion, to), side, "Pawn", from)

update_passed_pawns(b) ==
    LET white_pawns == b.pawns \cap b.white_pieces
        black_pawns == b.pawns \cap b.black_pieces
    IN  [b EXCEPT !.passed_pawns =
            {p \in white_pawns : black_pawns \cap WHITE_PASSED_PAWN_ZONE(p) = {}}
            \cup {p \in black_pawns : white_pawns \cap BLACK_PASSED_PAWN_ZONE(p) = {}}]

----------------------------------------------------------------------------
(* Move (lib.rs)                                                            *)

Regular(piece, from, to, captured_piece) ==
    [kind |-> "Regular", piece |-> piece, from |-> from, to |-> to,
     captured |-> captured_piece]

ShortCastling(side) == [kind |-> "ShortCastling", side |-> side]

LongCastling(side) == [kind |-> "LongCastling", side |-> side]

EnPassantCapture(from, to, captured_pawn) ==
    [kind |-> "EnPassantCapture", from |-> from, to |-> to,
     captured_pawn |-> captured_pawn]

Promotion(from, to, promotion_piece, captured_piece) ==
    [kind |-> "Promotion", from |-> from, to |-> to,
     promotion_piece |-> promotion_piece, captured |-> captured_piece]

e1 == 4
e8 == 60

move_from(m) ==
    CASE m.kind \in {"ShortCastling", "LongCastling"} ->
            IF m.side = "White" THEN e1 ELSE e8
      [] OTHER -> m.from

move_to(m) ==
    CASE m.kind = "ShortCastling" -> IF m.side = "White" THEN 6 ELSE 62
      [] m.kind = "LongCastling" -> IF m.side = "White" THEN 2 ELSE 58
      [] OTHER -> m.to

move_piece(m) ==
    CASE m.kind = "Regular" -> m.piece
      [] m.kind \in {"ShortCastling", "LongCastling"} -> "King"
      [] OTHER -> "Pawn"

captured_piece(m) ==
    CASE m.kind \in {"Regular", "Promotion"} -> m.captured
      [] m.kind = "EnPassantCapture" -> "Pawn"
      [] OTHER -> "None"

is_capture(m) == captured_piece(m) # "None"

\* is_pawn_involved that looks at the moving piece only
is_pawn_moved(m) ==
    CASE m.kind = "Regular" -> m.piece = "Pawn"
      [] m.kind \in {"EnPassantCapture", "Promotion"} -> TRUE
      [] OTHER -> FALSE

is_pawn_involved(m) ==
    CASE m.kind = "Regular" -> m.captured = "Pawn" \/ m.piece = "Pawn"
      [] m.kind \in {"EnPassantCapture", "Promotion"} -> TRUE
      [] OTHER -> FALSE

capture_value(m) == IF is_capture(m) THEN value(captured_piece(m)) ELSE 0

----------------------------------------------------------------------------
(* Make / unmake (board.rs)                                                 *)

apply_regular_move(b, m) ==
    LET b1 == IF m.captured # "None"
              THEN apply_capture(b, b.side_to_not_move, m.captured, m.to)
              ELSE IF m.piece = "Pawn"
                      /\ \/ b.side_to_move = "White" /\ rank(m.from) = 1 /\ rank(m.to) = 3
                         \/ b.side_to_move = "Black" /\ rank(m.from) = 6 /\ rank(m.to) = 4
              THEN [b EXCEPT !.ep_square =
                                delta(m.from, IF b.side_to_move = "White" THEN 1 ELSE -1, 0),
                             !.z_hash = flip_ep_file(@, file(m.to))]
              ELSE b
    IN  apply_move(b1, b.side_to_move, m.piece, m.from, m.to)

undo_regular_move(b, m) ==
    LET b1 == undo_move(b, b.side_to_not_move, m.piece, m.from, m.to)
    IN  IF m.captured # "None"
        THEN undo_capture(b1, b.side_to_move, m.captured, m.to)
        ELSE b1

\* (king, king_to, rook, rook_to)
ShortCastlingSquares(side) ==
    IF side = "White" THEN <<4, 6, 7, 5>> ELSE <<60, 62, 63, 61>>

LongCastlingSquares(side) ==
    IF side = "White" THEN <<4, 2, 0, 3>> ELSE <<60, 58, 56, 59>>

apply_short_castling_move(b) ==
    LET q == ShortCastlingSquares(b.side_to_move)
    IN  apply_move(apply_move(b, b.side_to_move, "King", q[1], q[2]),
                   b.side_to_move, "Rook", q[3], q[4])

undo_short_castling_move(b) ==
    LET q == ShortCastlingSquares(b.side_to_not_move)
    IN  undo_move(undo_move(b, b.side_to_not_move, "King", q[1], q[2]),
                  b.side_to_not_move, "Rook", q[3], q[4])

apply_long_castling_move(b) ==
    LET q == LongCastlingSquares(b.side_to_move)
    IN  apply_move(apply_move(b, b.side_to_move, "King", q[1], q[2]),
                   b.side_to_move, "Rook", q[3], q[4])

undo_long_castling_move(b) ==
    LET q == LongCastlingSquares(b.side_to_not_move)
    IN  undo_move(undo_move(b, b.side_to_not_move, "King", q[1], q[2]),
                  b.side_to_not_move, "Rook", q[3], q[4])

apply_ep_capture_move(b, m) ==
    apply_move(apply_capture(b, b.side_to_not_move, "Pawn", m.captured_pawn),
               b.side_to_move, "Pawn", m.from, m.to)

undo_ep_capture_move(b, m) ==
    undo_capture(undo_move(b, b.side_to_not_move, "Pawn", m.from, m.to),
                 b.side_to_move, "Pawn", m.captured_pawn)

apply_promotion_move(b, m) ==
    LET b1 == IF m.captured # "None"
              THEN apply_capture(b, b.side_to_not_move, m.captured, m.to)
              ELSE b
    IN  apply_promotion(b1, b.side_to_move, m.from, m.to, m.promotion_piece)

undo_promotion_move(b, m) ==
    LET b1 == undo_promotion(b, b.side_to_not_move, m.from, m.to, m.promotion_piece)
    IN  IF m.captured # "None"
        THEN undo_capture(b1, b.side_to_move, m.captured, m.to)
        ELSE b1

hash(b) == b.z_hash

MoveUndoInfo(b) ==
    [castling_rights |-> b.castling_rights,
     half_move_clock |-> b.half_move_clock,
     ep_square |-> b.ep_square,
     is_threefold_repetition |-> b.is_threefold_repetition,
     passed_pawns |-> b.passed_pawns]

\* push that leaves the en passant square of the move before
PushKeepEp(b) == b

\* push: the en-passant square of the position left is cleared
PushClearEp(b) ==
    [b EXCEPT !.z_hash = IF b.ep_square # {}
                         THEN flip_ep_file(@, file(Min(b.ep_square))) ELSE @,
              !.ep_square = {}]

\* half_move_clock = 0, or half_move_clock += 1
PushClock(b, reset) ==
    [b EXCEPT !.half_move_clock = IF reset THEN 0 ELSE (@ + 1) % U8]

\* push: match move_ { ... }
PushMove(b, m) ==
    CASE m.kind = "Regular" ->
            PushClock(apply_regular_move(b, m), m.piece = "Pawn" \/ is_capture(m))
      [] m.kind = "ShortCastling" -> PushClock(apply_short_castling_move(b), FALSE)
      [] m.kind = "LongCastling" -> PushClock(apply_long_castling_move(b), FALSE)
      [] m.kind = "EnPassantCapture" -> PushClock(apply_ep_capture_move(b, m), TRUE)
      [] m.kind = "Promotion" -> PushClock(apply_promotion_move(b, m), TRUE)

\* push: if move_.is_pawn_involved() { self.update_passed_pawns() }
PushPassedPawns(b, m) == IF is_pawn_involved(m) THEN update_passed_pawns(b) ELSE b

\* push: the move stack grows, the sides swap, the move number advances
PushTurn(b, m, move_undo_info) ==
    [b EXCEPT !.move_stack = Append(@, <<m, move_undo_info>>),
              !.side_to_move = b.side_to_not_move,
              !.side_to_not_move = b.side_to_move,
              !.z_hash = flip_black_to_move(@),
              !.full_move_number = IF b.side_to_not_move = "White" THEN @ + 1 ELSE @]

\* push: hash_count = hash_history.push(hash()); if hash_count >= 3 { ... = true }
PushHistory(b) ==
    [b EXCEPT !.hash_history = HistoryPush(@, hash(b)),
              !.is_threefold_repetition =
                    IF HistoryCount(b.hash_history, hash(b)) + 1 >= 3 THEN TRUE ELSE @]

push(b, m) ==
    PushHistory(PushTurn(PushPassedPawns(PushMove(PushClearEp(b), m), m),
                         m, MoveUndoInfo(b)))

\* pop: move_stack.pop() and hash_history.pop(hash())
PopEntry(b) ==
    [b EXCEPT !.move_stack = SubSeq(@, 1, Len(@) - 1),
              !.hash_history = HistoryPop(@, hash(b))]

\* pop: match move_ { ... }
PopMove(b, m) ==
    CASE m.kind = "Regular" -> undo_regular_move(b, m)
      [] m.kind = "ShortCastling" -> undo_short_castling_move(b)
      [] m.kind = "LongCastling" -> undo_long_castling_move(b)
      [] m.kind = "EnPassantCapture" -> undo_ep_capture_move(b, m)
      [] m.kind = "Promotion" -> undo_promotion_move(b, m)

\* the keys of the bits of castling_rights ^ move_undo_info.castling_rights
CastlingDiffKeys(castling_rights, undo_castling_rights) ==
    {short_castling_keys(side) :
        side \in {x \in Sides : HasFlag(castling_rights, short_castling_flag(x))
                                  # HasFlag(undo_castling_rights, short_castling_flag(x))}}
    \cup {long_castling_keys(side) :
        side \in {x \in Sides : HasFlag(castling_rights, long_castling_flag(x))
                                  # HasFlag(undo_castling_rights, long_castling_flag(x))}}

\* pop: the en-passant key of the square left, then of the square restored
PopEpKeys(h, ep_square, undo_ep_square) ==
    XorAll(XorAll(h, {en_passant_file_keys(file(s)) : s \in ep_square}),
           {en_passant_file_keys(file(s)) : s \in undo_ep_square})

\* pop: everything after the move is taken back
PopRestore(b, move_undo_info) ==
    [b EXCEPT !.z_hash =
                flip_black_to_move(
                    PopEpKeys(XorAll(@, CastlingDiffKeys(b.castling_rights,
                                                         move_undo_info.castling_rights)),
                              b.ep_square, move_undo_info.ep_square)),
              !.castling_rights = move_undo_info.castling_rights,
              !.ep_square = move_undo_info.ep_square,
              !.half_move_clock = move_undo_info.half_move_clock,
              !.side_to_move = b.side_to_not_move,
              !.side_to_not_move = b.side_to_move,
              !.full_move_number = IF b.side_to_not_move = "Black" THEN @ - 1 ELSE @,
              !.is_threefold_repetition = move_undo_info.is_threefold_repetition,
              !.passed_pawns = move_undo_info.passed_pawns]

pop(b) ==
    IF b.move_stack = <<>> THEN b
    ELSE PopRestore(PopMove(PopEntry(b), b.move_stack[Len(b.move_stack)][1]),
                    b.move_stack[Len(b.move_stack)][2])

----------------------------------------------------------------------------
(* Move generation (board.rs)                                               *)

Range(q) == {q[i] : i \in 1 .. Len(q)}

RECURSIVE Flatten(_)
Flatten(ss) == IF ss = <<>> THEN <<>> ELSE Head(ss) \o Flatten(Tail(ss))

\* BitBoard::single: aborts unless exactly one bit is set
single(bb) == CHOOSE s \in bb : Cardinality(bb) = 1

own_pieces_of(b) == get_pieces(b, b.side_to_move)

enemy_pieces_of(b) == get_pieces(b, b.side_to_not_move)

attacked_squares(b, own_pieces, enemy_pieces, all_pieces) ==
    LET all_pieces_except_own_king == all_pieces \ (b.kings \cap own_pieces)
    IN  pawn_captures(b.pawns \cap enemy_pieces, b.side_to_not_move)
        \cup UNION {KINGS_MOVE(k) : k \in b.kings \cap enemy_pieces}
        \cup UNION {KNIGHTS_MOVE(k) : k \in b.knights \cap enemy_pieces}
        \cup UNION {bishop_moves(s, all_pieces_except_own_king) :
                        s \in (b.bishops \cup b.queens) \cap enemy_pieces}
        \cup UNION {rook_moves(s, all_pieces_except_own_king) :
                        s \in (b.rooks \cup b.queens) \cap enemy_pieces}

checks(b, own_pieces, enemy_pieces, all_pieces) ==
    LET own_king == single(b.kings \cap own_pieces)
        checking_pawns ==
            (b.pawns \cap enemy_pieces) \cap pawn_captures({own_king}, b.side_to_move)
        checking_knights == (b.knights \cap enemy_pieces) \cap KNIGHTS_MOVE(own_king)
        checking_diag_sliders ==
            ((b.bishops \cup b.queens) \cap enemy_pieces) \cap bishop_moves(own_king, all_pieces)
        checking_orthog_sliders ==
            ((b.rooks \cup b.queens) \cap enemy_pieces) \cap rook_moves(own_king, all_pieces)
    IN  [checking_pieces |->
            checking_pawns \cup checking_knights \cup checking_diag_sliders
                \cup checking_orthog_sliders,
         check_blocking_squares |->
            UNION {BISHOPS_MOVE(own_king) \cap BOUNDING_BOX(s, own_king) :
                        s \in checking_diag_sliders}
            \cup UNION {ROOKS_MOVE(own_king) \cap BOUNDING_BOX(s, own_king) :
                        s \in checking_orthog_sliders}]

is_in_check(b) ==
    checks(b, own_pieces_of(b), enemy_pieces_of(b),
           b.white_pieces \cup b.black_pieces).checking_pieces # {}

\* the loop body shared by diagonal_pins and orthogonal_pins
PinMask(own_king, mask, pinners, own_pieces, enemy_pieces) ==
    UNION {LET pin_path == (mask \cap BOUNDING_BOX(pinner, own_king)) \ {own_king}
           IN  IF Cardinality(own_pieces \cap pin_path) = 1
                  /\ Cardinality(enemy_pieces \cap pin_path) = 1
               THEN pin_path ELSE {} : pinner \in pinners}

diagonal_pins(b, own_pieces, enemy_pieces) ==
    LET own_king == single(b.kings \cap own_pieces)
        mask == BISHOPS_MOVE(own_king)
        pinners == (b.bishops \cup b.queens) \cap enemy_pieces \cap mask
    IN  PinMask(own_king, mask, pinners, own_pieces, enemy_pieces)

orthogonal_pins(b, own_pieces, enemy_pieces) ==
    LET own_king == single(b.kings \cap own_pieces)
        mask == ROOKS_MOVE(own_king)
        pinners == (b.rooks \cup b.queens) \cap enemy_pieces \cap mask
    IN  PinMask(own_king, mask, pinners, own_pieces, enemy_pieces)

PromotionPieces == <<"Queen", "Rook", "Knight", "Bishop">>

\* for square in allowed { moves.push(Move::regular(piece, from, square, captured)) }
RegularMovesTo(b, piece, from, allowed) ==
    [j \in 1 .. Cardinality(allowed) |->
        Regular(piece, from, BitScan(allowed)[j],
                get_piece(b, b.side_to_not_move, BitScan(allowed)[j]))]

\* for square in allowed { moves.push(Move::regular(Piece::Pawn, from, square, None)) }
PawnMovesTo(from, allowed) ==
    [j \in 1 .. Cardinality(allowed) |-> Regular("Pawn", from, BitScan(allowed)[j], "None")]

PromotionsTo(from, to, captured) ==
    [k \in 1 .. 4 |-> Promotion(from, to, PromotionPieces[k], captured)]

\* what legal_moves_noalloc computes before it emits a move
MoveGen(b, own_pieces, enemy_pieces, all_pieces) ==
    [own_pieces |-> own_pieces,
     enemy_pieces |-> enemy_pieces,
     all_pieces |-> all_pieces,
     attacked_squares |-> attacked_squares(b, own_pieces, enemy_pieces, all_pieces),
     checks |-> checks(b, own_pieces, enemy_pieces, all_pieces),
     diagonal_pins |-> diagonal_pins(b, own_pieces, enemy_pieces),
     orthogonal_pins |-> orthogonal_pins(b, own_pieces, enemy_pieces),
     own_king |-> single(b.kings \cap own_pieces)]

in_check(g) == g.checks.checking_pieces # {}

\* a generator that sees no pin
no_pins(g) == {}

pins(g) == g.diagonal_pins \cup g.orthogonal_pins

check_evasion_mask(g) ==
    IF in_check(g) THEN g.checks.checking_pieces \cup g.checks.check_blocking_squares
    ELSE Squares

unpinned_pawns(b, g) == (g.own_pieces \cap b.pawns) \ pins(g)

diagonally_pinned_pawns(b, g) == (g.own_pieces \cap b.pawns) \cap g.diagonal_pins

orthogonally_pinned_pawns(b, g) == (g.own_pieces \cap b.pawns) \cap g.orthogonal_pins

KingMoves(b, g) ==
    RegularMovesTo(b, "King", g.own_king,
                   KINGS_MOVE(g.own_king) \ (g.own_pieces \cup g.attacked_squares))

\* castling_path & danger_squares is empty on the king's way to to_square
CastlingPathFree(g, king_to_square) ==
    (BOUNDING_BOX(g.own_king, king_to_square) \ {g.own_king})
        \cap (g.all_pieces \cup g.attacked_squares) = {}

CastlingMoves(b, g) ==
    IF in_check(g) THEN <<>>
    ELSE (IF can_castle_short(b, b.side_to_move)
             /\ CastlingPathFree(g, single(delta(g.own_king, 0, 2)))
          THEN <<ShortCastling(b.side_to_move)>> ELSE <<>>)
         \o (IF can_castle_long(b, b.side_to_move)
                /\ CastlingPathFree(g, single(delta(g.own_king, 0, -2)))
                /\ single(delta(g.own_king, 0, -3)) \notin g.all_pieces
             THEN <<LongCastling(b.side_to_move)>> ELSE <<>>)

\* allowed_moves of one bishop or queen
DiagSliderAllowed(g, sq, base) ==
    IF sq \in g.diagonal_pins THEN base \cap g.diagonal_pins
    ELSE IF sq \in g.orthogonal_pins THEN base \cap g.orthogonal_pins \cap ROOKS_MOVE(sq)
    ELSE base

DiagSliderMoves(b, g) ==
    Flatten([i \in 1 .. Cardinality(g.own_pieces \cap (b.bishops \cup b.queens)) |->
        LET sq == BitScan(g.own_pieces \cap (b.bishops \cup b.queens))[i]
        IN  RegularMovesTo(b, IF sq \in b.bishops THEN "Bishop" ELSE "Queen", sq,
                DiagSliderAllowed(g, sq,
                    (bishop_moves(sq, g.all_pieces) \ g.own_pieces)
                        \cap check_evasion_mask(g)))])

\* allowed_moves of one rook or queen
OrthSliderAllowed(g, sq, base) ==
    IF sq \in g.diagonal_pins THEN base \cap g.diagonal_pins \cap BISHOPS_MOVE(sq)
    ELSE IF sq \in g.orthogonal_pins THEN base \cap g.orthogonal_pins
    ELSE base

OrthSliderMoves(b, g) ==
    Flatten([i \in 1 .. Cardinality(g.own_pieces \cap (b.rooks \cup b.queens)) |->
        LET sq == BitScan(g.own_pieces \cap (b.rooks \cup b.queens))[i]
        IN  RegularMovesTo(b, IF sq \in b.rooks THEN "Rook" ELSE "Queen", sq,
                OrthSliderAllowed(g, sq,
                    (rook_moves(sq, g.all_pieces) \ g.own_pieces)
                        \cap check_evasion_mask(g)))])

KnightMoves(b, g) ==
    Flatten([i \in 1 .. Cardinality(g.own_pieces \cap b.knights) |->
        LET sq == BitScan(g.own_pieces \cap b.knights)[i]
        IN  IF sq \in pins(g) THEN <<>>
            ELSE RegularMovesTo(b, "Knight", sq,
                    (KNIGHTS_MOVE(sq) \ g.own_pieces) \cap check_evasion_mask(g))])

\* a pawn capture arriving on `to`: four promotions on the enemy back rank
PawnCaptureTo(b, from, to) ==
    IF rank(to) = back_rank(b.side_to_not_move)
    THEN PromotionsTo(from, to, get_piece(b, b.side_to_not_move, to))
    ELSE <<Regular("Pawn", from, to, get_piece(b, b.side_to_not_move, to))>>

DiagPinnedPawnCaptures(b, g, own_pawn) ==
    pawn_captures({own_pawn}, b.side_to_move) \cap g.enemy_pieces
        \cap g.diagonal_pins \cap check_evasion_mask(g)

DiagPinnedPawnMoves(b, g) ==
    Flatten([i \in 1 .. Cardinality(diagonally_pinned_pawns(b, g)) |->
        LET own_pawn == BitScan(diagonally_pinned_pawns(b, g))[i]
        IN  Flatten([j \in 1 .. Cardinality(DiagPinnedPawnCaptures(b, g, own_pawn)) |->
                PawnCaptureTo(b, own_pawn,
                              BitScan(DiagPinnedPawnCaptures(b, g, own_pawn))[j])])])

\* push_mask of one orthogonally pinned pawn
PinnedPushMask(b, g, own_pawn) == pawn_pushes({own_pawn}, b.side_to_move) \ g.all_pieces

OrthPinnedPawnMoves(b, g) ==
    Flatten([i \in 1 .. Cardinality(orthogonally_pinned_pawns(b, g)) |->
        LET own_pawn == BitScan(orthogonally_pinned_pawns(b, g))[i]
        IN  PawnMovesTo(own_pawn,
                PinnedPushMask(b, g, own_pawn) \cap g.orthogonal_pins
                    \cap check_evasion_mask(g))
            \o PawnMovesTo(own_pawn,
                ((pawn_pushes(PinnedPushMask(b, g, own_pawn), b.side_to_move)
                    \cap RANK(pawn_double_push_rank(b.side_to_move))) \ g.all_pieces)
                    \cap g.orthogonal_pins \cap check_evasion_mask(g))])

\* for (from, to) in froms.zip(tos): both iterate lowest ordinal first
Zip(froms, tos) ==
    [j \in 1 .. (IF Cardinality(froms) < Cardinality(tos)
                 THEN Cardinality(froms) ELSE Cardinality(tos)) |->
        <<BitScan(froms)[j], BitScan(tos)[j]>>]

PawnPushTargets(b, g) ==
    (pawn_pushes(unpinned_pawns(b, g), b.side_to_move) \ g.all_pieces)
        \cap check_evasion_mask(g)

PawnPushMovesOf(pairs) ==
    Flatten([j \in 1 .. Len(pairs) |->
        IF rank(pairs[j][2]) % 7 = 0
        THEN PromotionsTo(pairs[j][1], pairs[j][2], "None")
        ELSE <<Regular("Pawn", pairs[j][1], pairs[j][2], "None")>>])

PawnPushMoves(b, g) ==
    PawnPushMovesOf(Zip(pawn_pushes(PawnPushTargets(b, g), b.side_to_not_move),
                        PawnPushTargets(b, g)))

PawnDoublePushTargets(b, g) ==
    ((pawn_pushes(pawn_pushes(unpinned_pawns(b, g), b.side_to_move) \ g.all_pieces,
                  b.side_to_move)
        \cap RANK(pawn_double_push_rank(b.side_to_move))) \ g.all_pieces)
        \cap check_evasion_mask(g)

PawnDoublePushMovesOf(pairs) ==
    [j \in 1 .. Len(pairs) |-> Regular("Pawn", pairs[j][1], pairs[j][2], "None")]

PawnDoublePushMoves(b, g) ==
    PawnDoublePushMovesOf(
        Zip(pawn_pushes(pawn_pushes(PawnDoublePushTargets(b, g), b.side_to_not_move),
                        b.side_to_not_move),
            PawnDoublePushTargets(b, g)))

pawn_left_captures_excl_ep(b, g) ==
    pawn_left_captures(unpinned_pawns(b, g), b.side_to_move) \cap g.enemy_pieces
        \cap check_evasion_mask(g)

pawn_right_captures_excl_ep(b, g) ==
    pawn_right_captures(unpinned_pawns(b, g), b.side_to_move) \cap g.enemy_pieces
        \cap check_evasion_mask(g)

PawnCaptureMovesOf(b, pairs) ==
    Flatten([j \in 1 .. Len(pairs) |-> PawnCaptureTo(b, pairs[j][1], pairs[j][2])])

PawnCaptureMoves(b, g) ==
    PawnCaptureMovesOf(b,
        Zip(pawn_left_captures(pawn_left_captures_excl_ep(b, g), b.side_to_not_move),
            pawn_left_captures_excl_ep(b, g))
        \o Zip(pawn_right_captures(pawn_right_captures_excl_ep(b, g), b.side_to_not_move),
               pawn_right_captures_excl_ep(b, g)))

\* the en-passant block of legal_moves_noalloc
potential_capturers(b, g, ep_square) ==
    (IF ep_square \in g.diagonal_pins
     THEN unpinned_pawns(b, g) \cup diagonally_pinned_pawns(b, g)
     ELSE unpinned_pawns(b, g)) \cap pawn_captures({ep_square}, b.side_to_not_move)

can_capture_ep(b, g, enemy_pawn, capturers) ==
    IF enemy_pawn \cap check_evasion_mask(g) = {} THEN FALSE
    ELSE IF Cardinality(capturers \cap RANK(rank(g.own_king))) = 1
    THEN ~ \E partial_pinner \in
                (b.rooks \cup b.queens) \cap g.enemy_pieces \cap RANK(rank(g.own_king)) :
            Cardinality(BOUNDING_BOX(partial_pinner, g.own_king) \cap g.all_pieces) < 5
    ELSE TRUE

EnPassantMovesOf(b, g, ep_square, enemy_pawn, capturers) ==
    IF can_capture_ep(b, g, enemy_pawn, capturers)
    THEN [j \in 1 .. Cardinality(capturers) |->
            EnPassantCapture(BitScan(capturers)[j], ep_square, single(enemy_pawn))]
    ELSE <<>>

EnPassantMoves(b, g) ==
    IF b.ep_square = {} THEN <<>>
    ELSE EnPassantMovesOf(b, g, Min(b.ep_square),
                          pawn_pushes(b.ep_square, b.side_to_not_move),
                          potential_capturers(b, g, Min(b.ep_square)))

LegalMovesOf(b, g) ==
    IF Cardinality(g.checks.checking_pieces) > 1
    THEN KingMoves(b, g)
    ELSE KingMoves(b, g) \o CastlingMoves(b, g)
         \o DiagSliderMoves(b, g) \o OrthSliderMoves(b, g) \o KnightMoves(b, g)
         \o DiagPinnedPawnMoves(b, g) \o OrthPinnedPawnMoves(b, g)
         \o PawnPushMoves(b, g) \o PawnDoublePushMoves(b, g) \o PawnCaptureMoves(b, g)
         \o EnPassantMoves(b, g)

legal_moves(b) ==
    LegalMovesOf(b, MoveGen(b, own_pieces_of(b), enemy_pieces_of(b),
                            own_pieces_of(b) \cup enemy_pieces_of(b)))

----------------------------------------------------------------------------
(* Square and move text (square.rs Display / FromStr, lib.rs to_uci_string) *)

FileChars == <<"a", "b", "c", "d", "e", "f", "g", "h">>

RankChars == <<"1", "2", "3", "4", "5", "6", "7", "8">>

file_char(s) == FileChars[file(s) + 1]

rank_char(s) == RankChars[rank(s) + 1]

\* impl Display for Square, as a string
square_to_string(s) == file_char(s) \o rank_char(s)

\* Piece::to_fen_char
to_fen_char(piece, side) ==
    IF side = "White"
    THEN CASE piece = "Pawn" -> "P" [] piece = "Knight" -> "N" [] piece = "Bishop" -> "B"
           [] piece = "Rook" -> "R" [] piece = "Queen" -> "Q" [] piece = "King" -> "K"
    ELSE CASE piece = "Pawn" -> "p" [] piece = "Knight" -> "n" [] piece = "Bishop" -> "b"
           [] piece = "Rook" -> "r" [] piece = "Queen" -> "q" [] piece = "King" -> "k"

\* a move written by its two squares alone
uci_squares(m) == square_to_string(move_from(m)) \o square_to_string(move_to(m))

to_uci_string(m) ==
    CASE m.kind = "Regular" -> square_to_string(m.from) \o square_to_string(m.to)
      [] m.kind = "ShortCastling" -> IF m.side = "White" THEN "e1g1" ELSE "e8g8"
      [] m.kind = "LongCastling" -> IF m.side = "White" THEN "e1c1" ELSE "e8c8"
      [] m.kind = "EnPassantCapture" -> square_to_string(m.from) \o square_to_string(m.to)
      [] m.kind = "Promotion" ->
            square_to_string(m.from) \o square_to_string(m.to)
                \o to_fen_char(m.promotion_piece, "Black")

\* legal_moves.iter().find(|m| m.to_uci_string() == uci_move): the index of the
\* first match, 0 for None
FindUci(moves, uci_move) ==
    LET hits == {i \in 1 .. Len(moves) : to_uci_string(moves[i]) = uci_move}
    IN  IF hits = {} THEN 0 ELSE Min(hits)

\* match selected_move { Some(move_) => Ok(self.push(move_)), None => Err(..) }:
\* the Result and the board afterwards, i the index found in the legal moves
PushFound(b, moves, i) ==
    IF i = 0 THEN [tag |-> "Err", board |-> b]
    ELSE [tag |-> "Ok", board |-> push(b, moves[i])]

push_uci(b, uci_move) ==
    PushFound(b, legal_moves(b), FindUci(legal_moves(b), uci_move))

is_draw_by_threefold_repetition(b) == b.is_threefold_repetition

----------------------------------------------------------------------------
(* Board construction (board.rs)                                            *)

\* a construction that leaves the hash without its state keys
hash_unset(b) == b

init_zobrist_hash(b) ==
    LET piece_key_set ==
            {piece_keys(side, p, s) : <<side, p, s>> \in
                {t \in Sides \X Pieces \X Squares :
                    t[3] \in b[KindField(t[2])] \cap get_pieces(b, t[1])}}
        castling_key_set ==
            {short_castling_keys(side) : side \in {x \in Sides : can_castle_short(b, x)}}
            \cup {long_castling_keys(side) : side \in {x \in Sides : can_castle_long(b, x)}}
        ep_key_set == {en_passant_file_keys(file(s)) : s \in b.ep_square}
        stm_key_set == IF b.side_to_move = "Black" THEN {black_to_move_key} ELSE {}
    IN  [b EXCEPT !.z_hash =
            XorAll(XorAll(XorAll(XorAll(@, piece_key_set), castling_key_set),
                          ep_key_set), stm_key_set)]

RECURSIVE SumOver(_, _)
SumOver(f, S) ==
    IF S = {} THEN 0
    ELSE LET x == CHOOSE y \in S : TRUE IN f[x] + SumOver(f, S \ {x})

init_pst_eval(b) ==
    LET placed == {t \in Sides \X Pieces \X Squares :
                        t[3] \in b[KindField(t[2])] \cap get_pieces(b, t[1])}
        term == [t \in placed |-> PstTerm(t[1], t[2], t[3])]
    IN  [b EXCEPT !.pst_eval = @ + SumOver(term, placed)]

\* the Board { ... } literal of parse_fen: no pieces yet
EmptyBoard(side_to_move, castling_rights, half_move_clock, full_move_number, ep_square) ==
    [side_to_move |-> side_to_move,
     side_to_not_move |-> other(side_to_move),
     white_pieces |-> {}, black_pieces |-> {},
     pawns |-> {}, bishops |-> {}, knights |-> {}, rooks |-> {}, queens |-> {},
     kings |-> {},
     passed_pawns |-> {},
     castling_rights |-> castling_rights,
     half_move_clock |-> half_move_clock,
     full_move_number |-> full_move_number,
     ep_square |-> ep_square,
     z_hash |-> {},
     pst_eval |-> 0,
     move_stack |-> <<>>,
     hash_history |-> HistoryNew,
     is_threefold_repetition |-> FALSE]

starting_position ==
    LET b0 == [EmptyBoard("White", 15, 0, 1, {}) EXCEPT
                    !.white_pieces = RANK(0) \cup RANK(1),
                    !.black_pieces = RANK(6) \cup RANK(7),
                    !.pawns = RANK(1) \cup RANK(6),
                    !.knights = {1, 6, 57, 62},
                    !.bishops = {2, 5, 58, 61},
                    !.rooks = {0, 7, 56, 63},
                    !.queens = {3, 59},
                    !.kings = {e1, e8}]
        b1 == init_pst_eval(init_zobrist_hash(b0))
    IN  [b1 EXCEPT !.hash_history = HistoryPush(@, hash(b1))]

----------------------------------------------------------------------------
(* FEN input (board.rs parse_fen).  A text is a sequence of characters.     *)

DigitChars == <<"0", "1", "2", "3", "4", "5", "6", "7", "8", "9">>

IsDigit(c) == \E d \in 1 .. 10 : DigitChars[d] = c

\* c - b'0'
DigitVal(c) == (CHOOSE d \in 1 .. 10 : DigitChars[d] = c) - 1

Chars(t) == {t[i] : i \in 1 .. Len(t)}

\* str::split(sep): the pieces between the separators, left to right
RECURSIVE SplitOn(_, _)
SplitOn(t, sep) ==
    IF sep \notin Chars(t) THEN <<t>>
    ELSE LET i == Min({j \in 1 .. Len(t) : t[j] = sep})
         IN  <<SubSeq(t, 1, i - 1)>> \o SplitOn(SubSeq(t, i + 1, Len(t)), sep)

Reverse(q) == [i \in 1 .. Len(q) |-> q[Len(q) + 1 - i]]

\* str::rsplit(sep): the same pieces, last first
rsplit(t, sep) == Reverse(SplitOn(t, sep))

\* str::parse::<uN>() of a digit string: checked accumulation, -1 for Err
RECURSIVE ParseDigits(_, _, _)
ParseDigits(t, acc, max) ==
    IF t = <<>> THEN acc
    ELSE LET v == acc * 10 + DigitVal(Head(t))
         IN  IF v > max THEN -1 ELSE ParseDigits(Tail(t), v, max)

U8_MAX == 255

U16_MAX == 65535

\* the character class [RNBQKPrnbqkp1-8/]
BoardChars ==
    {"R", "N", "B", "Q", "K", "P", "r", "n", "b", "q", "k", "p",
     "1", "2", "3", "4", "5", "6", "7", "8", "/"}

\* the longest suffix of t inside the class C / the longest prefix of digits
ClassSuffix(t, C) ==
    LET n == Len(t)
        k == CHOOSE k \in 0 .. n :
                /\ \A j \in n - k + 1 .. n : t[j] \in C
                /\ k = n \/ t[n - k] \notin C
    IN  SubSeq(t, n - k + 1, n)

DigitPrefix(t) ==
    LET n == Len(t)
        k == CHOOSE k \in 0 .. n :
                /\ \A j \in 1 .. k : IsDigit(t[j])
                /\ k = n \/ ~IsDigit(t[k + 1])
    IN  SubSeq(t, 1, k)

\* K?Q?k?q?|-
CastlingWords ==
    {w1 \o w2 \o w3 \o w4 : w1 \in {<<>>, <<"K">>}, w2 \in {<<>>, <<"Q">>},
                            w3 \in {<<>>, <<"k">>}, w4 \in {<<>>, <<"q">>}}
    \cup {<<"-">>}

\* [a-h]?[1-8]?|-
EpWords ==
    {w1 \o w2 : w1 \in {<<>>} \cup {<<FileChars[i]>> : i \in 1 .. 8},
                w2 \in {<<>>} \cup {<<RankChars[i]>> : i \in 1 .. 8}}
    \cup {<<"-">>}

\* RE.captures(fen): the six groups of the leftmost match of the unanchored
\* pattern, <<>> for None.  The pattern's separators are single spaces and no
\* class holds a space, so a match covers six consecutive space-separated
\* fields: a class suffix of 15+ characters of the first, the next four
\* whole, and a digit prefix of the last.
RegexCaptures(text) ==
    LET fields == SplitOn(text, " ")
        Matches(i) ==
            /\ Len(ClassSuffix(fields[i], BoardChars)) >= 15
            /\ fields[i + 1] \in {<<"w">>, <<"b">>}
            /\ fields[i + 2] \in CastlingWords
            /\ fields[i + 3] \in EpWords
            /\ fields[i + 4] # <<>> /\ \A c \in Chars(fields[i + 4]) : IsDigit(c)
            /\ DigitPrefix(fields[i + 5]) # <<>>
        starts == {i \in 1 .. Len(fields) - 5 : Matches(i)}
    IN  IF starts = {} THEN <<>>
        ELSE LET i == Min(starts)
             IN  <<ClassSuffix(fields[i], BoardChars), fields[i + 1], fields[i + 2],
                   fields[i + 3], fields[i + 4], DigitPrefix(fields[i + 5])>>

\* Piece::parse_fen_char: <<piece, side>>, <<>> for Err
parse_fen_char(c) ==
    CASE c = "K" -> <<"King", "White">> [] c = "Q" -> <<"Queen", "White">>
      [] c = "R" -> <<"Rook", "White">> [] c = "B" -> <<"Bishop", "White">>
      [] c = "N" -> <<"Knight", "White">> [] c = "P" -> <<"Pawn", "White">>
      [] c = "k" -> <<"King", "Black">> [] c = "q" -> <<"Queen", "Black">>
      [] c = "r" -> <<"Rook", "Black">> [] c = "b" -> <<"Bishop", "Black">>
      [] c = "n" -> <<"Knight", "Black">> [] c = "p" -> <<"Pawn", "Black">>
      [] OTHER -> <<>>

\* impl FromStr for Square, then .ok(): an Option<Square>
\* a square read with its rank and file exchanged
parse_square_swapped(t) ==
    IF Len(t) = 2 /\ t[1] \in Chars(FileChars) /\ t[2] \in Chars(RankChars)
    THEN {from_coords((CHOOSE i \in 1 .. 8 : FileChars[i] = t[1]) - 1,
                      (CHOOSE i \in 1 .. 8 : RankChars[i] = t[2]) - 1)}
    ELSE {}

parse_square(t) ==
    IF Len(t) = 2 /\ t[1] \in Chars(FileChars) /\ t[2] \in Chars(RankChars)
    THEN {from_coords((CHOOSE i \in 1 .. 8 : RankChars[i] = t[2]) - 1,
                      (CHOOSE i \in 1 .. 8 : FileChars[i] = t[1]) - 1)}
    ELSE {}

\* the inner loop of parse_fen over the bytes of one row.  A square past h8
\* (ordinal >= 64) aborts in add_piece: 1 << ordinal overflows the shift in a
\* checked build, and in an unchecked build piece_keys[..][ordinal] is out of
\* range of its 64 keys.
RECURSIVE PlaceRow(_, _, _, _)
PlaceRow(acc, row_rank, row, row_file) ==
    IF row = <<>> THEN acc
    ELSE LET c == Head(row)
         IN  IF c \in Chars(RankChars)
             THEN PlaceRow(acc, row_rank, Tail(row), row_file + DigitVal(c))
             ELSE IF parse_fen_char(c) = <<>> THEN [tag |-> "Err"]
             ELSE LET ps == parse_fen_char(c)
                      square == from_coords(row_rank, row_file)
                  IN  IF square > 63 THEN [tag |-> "Panic"]
                      ELSE PlaceRow([tag |-> "Ok",
                                     board |-> add_piece(acc.board, ps[2], ps[1], square)],
                                    row_rank, Tail(row), row_file + 1)

\* for (i, row) in rows.iter().enumerate()
RECURSIVE PlaceRows(_, _, _)
PlaceRows(acc, rows, i) ==
    IF i > Len(rows) THEN acc
    ELSE IF Len(rows[i]) > 8 THEN [tag |-> "Err"]
    ELSE LET r == PlaceRow(acc, i - 1, rows[i], 0)
         IN  IF r.tag # "Ok" THEN r ELSE PlaceRows(r, rows, i + 1)

\* parse_fen: Ok(board), Err(FenParseError), or a panic
parse_fen(text) ==
    LET captures == RegexCaptures(text)
    IN  IF captures = <<>> THEN [tag |-> "Err"]
        ELSE
        LET rows == rsplit(captures[1], "/")
            side_to_move == IF captures[2] = <<"w">> THEN "White" ELSE "Black"
            castling_rights_str == Chars(captures[3])
            castling_rights ==
                (IF "K" \in castling_rights_str THEN short_castling_flag("White") ELSE 0)
                + (IF "Q" \in castling_rights_str THEN long_castling_flag("White") ELSE 0)
                + (IF "k" \in castling_rights_str THEN short_castling_flag("Black") ELSE 0)
                + (IF "q" \in castling_rights_str THEN long_castling_flag("Black") ELSE 0)
            ep_square == IF captures[4] = <<"-">> THEN {} ELSE parse_square(captures[4])
            half_move_clock == ParseDigits(captures[5], 0, U8_MAX)
            full_move_number == ParseDigits(captures[6], 0, U16_MAX)
        IN  IF Len(rows) # 8 THEN [tag |-> "Err"]
            \* .parse().unwrap()
            ELSE IF half_move_clock = -1 \/ full_move_number = -1 THEN [tag |-> "Panic"]
            ELSE
            LET b0 == init_pst_eval(init_zobrist_hash(
                        EmptyBoard(side_to_move, castling_rights, half_move_clock,
                                   full_move_number, ep_square)))
                placed == PlaceRows([tag |-> "Ok", board |-> b0], rows, 1)
            IN  IF placed.tag # "Ok" THEN placed
                ELSE [tag |-> "Ok",
                      board |-> update_passed_pawns(
                            [placed.board EXCEPT
                                !.hash_history = HistoryPush(@, hash(placed.board))])]

----------------------------------------------------------------------------
(* FEN output (board.rs to_fen_string)                                      *)

\* u8 / u16 to_string
RECURSIVE to_string(_)
to_string(n) ==
    IF n < 10 THEN <<DigitChars[n + 1]>>
    ELSE to_string(n \div 10) \o <<DigitChars[(n % 10) + 1]>>

\* the inner loop over the files of one rank
RECURSIVE RankText(_, _, _, _)
RankText(b, r, f, blank_square_count) ==
    LET flush == IF blank_square_count > 0 THEN to_string(blank_square_count) ELSE <<>>
    IN  IF f = 8 THEN flush
        ELSE LET square == from_coords(r, f)
                 white_piece == get_piece(b, "White", square)
                 black_piece == get_piece(b, "Black", square)
             IN  IF white_piece # "None"
                 THEN flush \o <<to_fen_char(white_piece, "White")>>
                        \o RankText(b, r, f + 1, 0)
                 ELSE IF black_piece # "None"
                 THEN flush \o <<to_fen_char(black_piece, "Black")>>
                        \o RankText(b, r, f + 1, 0)
                 ELSE RankText(b, r, f + 1, blank_square_count + 1)

to_fen_string(b) ==
    LET placement ==
            Flatten([i \in 1 .. 8 |->
                RankText(b, 8 - i, 0, 0) \o (IF 8 - i > 0 THEN <<"/">> ELSE <<>>)])
        side == IF b.side_to_move = "White" THEN <<" ", "w", " ">> ELSE <<" ", "b", " ">>
        castling ==
            IF b.castling_rights = 0 THEN <<"-">>
            ELSE (IF can_castle_short(b, "White") THEN <<"K">> ELSE <<>>)
                 \o (IF can_castle_long(b, "White") THEN <<"Q">> ELSE <<>>)
                 \o (IF can_castle_short(b, "Black") THEN <<"k">> ELSE <<>>)
                 \o (IF can_castle_long(b, "Black") THEN <<"q">> ELSE <<>>)
        ep == IF b.ep_square = {} THEN <<" ", "-">>
              ELSE LET s == Min(b.ep_square) IN <<" ", file_char(s), rank_char(s)>>
    IN  placement \o side \o castling \o ep
            \o <<" ">> \o to_string(b.half_move_clock)
            \o <<" ">> \o to_string(b.full_move_number)

----------------------------------------------------------------------------
(* The rules of chess, stated directly on a piece placement: the reference  *)
(* the move generator is compared with.  A placement maps each occupied     *)
(* square to <<side, piece>>.                                                *)

Sign(x) == IF x > 0 THEN 1 ELSE IF x < 0 THEN -1 ELSE 0

Max2(x, y) == IF x > y THEN x ELSE y

RulesPlacement(b) ==
    [s \in b.white_pieces \cup b.black_pieces |->
        <<IF s \in b.white_pieces THEN "White" ELSE "Black",
          CHOOSE p \in Pieces : s \in b[KindField(p)]>>]

RulesEmpty(pos, s) == s \notin DOMAIN pos

RulesHolds(pos, s, side, piece) == s \in DOMAIN pos /\ pos[s] = <<side, piece>>

RulesOwn(pos, s, side) == s \in DOMAIN pos /\ pos[s][1] = side

\* the squares strictly between two squares of one rank, file or diagonal
RulesBetween(a, c) ==
    LET dr == rank(c) - rank(a)
        df == file(c) - file(a)
        n == Max2(Abs(dr), Abs(df))
    IN  {a + k * (8 * Sign(dr) + Sign(df)) : k \in 1 .. n - 1}

RulesForward(side) == IF side = "White" THEN 1 ELSE -1

\* the piece standing on `from` attacks the square `to`
RulesAttacks(pos, from, to) ==
    LET side == pos[from][1]
        piece == pos[from][2]
        dr == rank(to) - rank(from)
        df == file(to) - file(from)
        clear == \A t \in RulesBetween(from, to) : RulesEmpty(pos, t)
        straight == (dr = 0) # (df = 0)
        diagonal == Abs(dr) = Abs(df) /\ dr # 0
    IN  CASE piece = "Pawn" -> dr = RulesForward(side) /\ Abs(df) = 1
          [] piece = "Knight" -> {Abs(dr), Abs(df)} = {1, 2}
          [] piece = "King" -> Max2(Abs(dr), Abs(df)) = 1
          [] piece = "Bishop" -> diagonal /\ clear
          [] piece = "Rook" -> straight /\ clear
          [] piece = "Queen" -> (diagonal \/ straight) /\ clear

RulesAttacked(pos, sq, by) ==
    \E from \in DOMAIN pos : pos[from][1] = by /\ RulesAttacks(pos, from, sq)

RulesInCheck(pos, side) ==
    \E k \in DOMAIN pos : pos[k] = <<side, "King">> /\ RulesAttacked(pos, k, other(side))

RulesCapturedAt(pos, s) == IF s \in DOMAIN pos THEN pos[s][2] ELSE "None"

\* a piece leaves `from` and `piece` of `side` stands on `to`; `gone` is emptied
RulesMovePiece(pos, side, piece, from, to, gone) ==
    [s \in (DOMAIN pos \ ({from} \cup gone)) \cup {to} |->
        IF s = to THEN <<side, piece>> ELSE pos[s]]

\* the placement after a move of `side`
RulesAfter(pos, side, m) ==
    CASE m.kind = "Regular" -> RulesMovePiece(pos, side, m.piece, m.from, m.to, {})
      [] m.kind = "Promotion" ->
            RulesMovePiece(pos, side, m.promotion_piece, m.from, m.to, {})
      [] m.kind = "EnPassantCapture" ->
            RulesMovePiece(pos, side, "Pawn", m.from, m.to, {m.captured_pawn})
      [] m.kind = "ShortCastling" ->
            LET q == ShortCastlingSquares(side)
            IN  RulesMovePiece(RulesMovePiece(pos, side, "King", q[1], q[2], {}),
                               side, "Rook", q[3], q[4], {})
      [] m.kind = "LongCastling" ->
            LET q == LongCastlingSquares(side)
            IN  RulesMovePiece(RulesMovePiece(pos, side, "King", q[1], q[2], {}),
                               side, "Rook", q[3], q[4], {})

RulesPieceMoves(pos, side) ==
    {Regular(pos[from][2], from, to, RulesCapturedAt(pos, to)) :
        <<from, to>> \in {ft \in (DOMAIN pos) \X Squares :
            /\ pos[ft[1]][1] = side /\ pos[ft[1]][2] # "Pawn"
            /\ ft[1] # ft[2]
            /\ ~RulesOwn(pos, ft[2], side)
            /\ RulesAttacks(pos, ft[1], ft[2])}}

\* a pawn arriving on `to`: four promotions on the last rank, else one move
RulesPawnArrives(pos, side, from, to) ==
    IF rank(to) = (IF side = "White" THEN 7 ELSE 0)
    THEN {Promotion(from, to, p, RulesCapturedAt(pos, to)) :
            p \in {"Queen", "Rook", "Knight", "Bishop"}}
    ELSE {Regular("Pawn", from, to, RulesCapturedAt(pos, to))}

RulesPawnMoves(pos, side, ep_square) ==
    LET fwd == 8 * RulesForward(side)
        own_pawns == {s \in DOMAIN pos : pos[s] = <<side, "Pawn">>}
        start_rank == IF side = "White" THEN 1 ELSE 6
        pushes ==
            UNION {RulesPawnArrives(pos, side, s, s + fwd) :
                    s \in {t \in own_pawns : t + fwd \in Squares /\ RulesEmpty(pos, t + fwd)}}
        double_pushes ==
            {Regular("Pawn", s, s + 2 * fwd, "None") :
                s \in {t \in own_pawns : /\ rank(t) = start_rank
                                         /\ RulesEmpty(pos, t + fwd)
                                         /\ RulesEmpty(pos, t + 2 * fwd)}}
        captures ==
            UNION {RulesPawnArrives(pos, side, ft[1], ft[2]) :
                    ft \in {x \in own_pawns \X Squares :
                                /\ RulesAttacks(pos, x[1], x[2])
                                /\ RulesOwn(pos, x[2], other(side))}}
        en_passant ==
            {EnPassantCapture(s, Min(ep_square), Min(ep_square) - fwd) :
                s \in {t \in own_pawns :
                        /\ ep_square # {}
                        /\ RulesAttacks(pos, t, Min(ep_square))
                        /\ RulesEmpty(pos, Min(ep_square))
                        /\ RulesHolds(pos, Min(ep_square) - fwd, other(side), "Pawn")}}
    IN  pushes \cup double_pushes \cup captures \cup en_passant

RulesCastlingMoves(pos, side, castling_rights) ==
    LET sq == ShortCastlingSquares(side)
        lq == LongCastlingSquares(side)
        Allowed(q, flag) ==
            /\ HasFlag(castling_rights, flag)
            /\ RulesHolds(pos, q[1], side, "King")
            /\ RulesHolds(pos, q[3], side, "Rook")
            /\ \A t \in RulesBetween(q[1], q[3]) : RulesEmpty(pos, t)
            /\ \A t \in {q[1], q[4], q[2]} : ~RulesAttacked(pos, t, other(side))
    IN  (IF Allowed(sq, short_castling_flag(side)) THEN {ShortCastling(side)} ELSE {})
        \cup (IF Allowed(lq, long_castling_flag(side)) THEN {LongCastling(side)} ELSE {})

\* every move the rules allow the side to move
RulesLegalMoves(b) ==
    LET pos == RulesPlacement(b)
        side == b.side_to_move
        pseudo == RulesPieceMoves(pos, side)
                    \cup RulesPawnMoves(pos, side, b.ep_square)
                    \cup RulesCastlingMoves(pos, side, b.castling_rights)
    IN  {m \in pseudo : ~RulesInCheck(RulesAfter(pos, side, m), side)}

----------------------------------------------------------------------------
(* The drivers.  A driver holds one Board and calls its operations.         *)

\* 8/8/8/r1pKPp2/8/8/8/7k w - f6 0 2: Black has just played f7-f5
FenEpBlocked ==
    <<"8", "/", "8", "/", "8", "/", "r", "1", "p", "K", "P", "p", "2", "/",
      "8", "/", "8", "/", "8", "/", "7", "k", " ", "w", " ", "-", " ", "f",
      "6", " ", "0", " ", "2">>

\* 8/8/8/K2pP2r/8/8/8/7k w - d6 0 2: Black has just played d7-d5
FenEpPinned ==
    <<"8", "/", "8", "/", "8", "/", "K", "2", "p", "P", "2", "r", "/", "8",
      "/", "8", "/", "8", "/", "7", "k", " ", "w", " ", "-", " ", "d", "6",
      " ", "0", " ", "2">>

\* 4k3/8/8/3PpP2/8/8/8/4K3 w - e6 0 2: Black has just played e7-e5
FenEpTwoCapturers ==
    <<"4", "k", "3", "/", "8", "/", "8", "/", "3", "P", "p", "P", "2", "/",
      "8", "/", "8", "/", "8", "/", "4", "K", "3", " ", "w", " ", "-", " ",
      "e", "6", " ", "0", " ", "2">>

\* r3k3/1P6/8/8/8/8/8/4K2R w Kq - 0 1
FenCastlePromote ==
    <<"r", "3", "k", "3", "/", "1", "P", "6", "/", "8", "/", "8", "/", "8",
      "/", "8", "/", "8", "/", "4", "K", "2", "R", " ", "w", " ", "K", "q",
      " ", "-", " ", "0", " ", "1">>

\* 4k3/8/8/8/1b6/8/3N4/4K2r w - - 0 1
FenPinCheck ==
    <<"4", "k", "3", "/", "8", "/", "8", "/", "8", "/", "1", "b", "6", "/",
      "8", "/", "3", "N", "4", "/", "4", "K", "2", "r", " ", "w", " ", "-",
      " ", "-", " ", "0", " ", "1">>

\* positions of legal games (each is reachable from the starting position by
\* legal play; the Board parse_fen builds for one differs from the Board the
\* game would have left only in the move stack and the repetition history)
PlayFens ==
    {FenEpBlocked, FenEpPinned, FenEpTwoCapturers, FenCastlePromote, FenPinCheck}

\* no engine object has been constructed yet
NoEngine ==
    /\ tt = [size |-> 0, entries |-> <<>>]
    /\ search = [max_depth |-> 0, last_pv |-> <<>>]
    /\ out = [op |-> "none"]
    /\ stored = <<>>
    /\ positions = {}

NoOp == [op |-> "init", uci |-> "", ok |-> TRUE, undoes_push |-> FALSE]

NotParsed == [tag |-> "None"]

\* the longest operation sequence a driver applies
MaxOps == 2

InitStart ==
    /\ board = starting_position
    /\ NoEngine
    /\ fen = <<>>
    /\ parsed = NotParsed

InitFen ==
    \E t \in PlayFens :
        /\ fen = t
        /\ parsed = parse_fen(t)
        /\ board = parsed.board
        /\ NoEngine

Init ==
    /\ InitStart \/ InitFen
    /\ last = NoOp
    /\ saved = board
    /\ ops = 0

\* board.push(m) for a move m of board.legal_moves(); the caller keeps a clone
Push ==
    /\ ops < MaxOps
    /\ \E m \in Range(legal_moves(board)) :
            /\ board' = push(board, m)
            /\ last' = [op |-> "push", uci |-> to_uci_string(m), ok |-> TRUE,
                        undoes_push |-> FALSE]
    /\ saved' = board
    /\ ops' = ops + 1
    /\ UNCHANGED <<fen, parsed>>
    /\ UNCHANGED engine

\* board.pop()
Pop ==
    /\ ops < MaxOps
    /\ board' = pop(board)
    /\ last' = [op |-> "pop", uci |-> "", ok |-> TRUE,
                undoes_push |-> last.op \in {"push", "push_uci"} /\ last.ok]
    /\ ops' = ops + 1
    /\ UNCHANGED <<saved, fen, parsed>>
    /\ UNCHANGED engine

\* texts that name no move of some or of every position
OtherUci == {"", "e2e5", "e1g1", "e5f6", "b7b8", "b7b8k", "d2f1"}

\* push_uci on a board whose legal moves are `moves`
PushUciOf(moves, uci_move) ==
    /\ board' = PushFound(board, moves, FindUci(moves, uci_move)).board
    /\ last' = [op |-> "push_uci", uci |-> uci_move,
                ok |-> FindUci(moves, uci_move) # 0, undoes_push |-> FALSE]

PushUciAny(moves) ==
    \E uci_move \in {to_uci_string(m) : m \in Range(moves)} \cup OtherUci :
        PushUciOf(moves, uci_move)

\* board.push_uci(s)
PushUci ==
    /\ ops < MaxOps
    /\ PushUciAny(legal_moves(board))
    /\ saved' = board
    /\ ops' = ops + 1
    /\ UNCHANGED <<fen, parsed>>
    /\ UNCHANGED engine

Next == Push \/ Pop \/ PushUci

Spec == Init /\ [][Next]_vars

----------------------------------------------------------------------------
(* The FEN driver: one call of Board::parse_fen on a text                   *)

\* rnbqkbnr/pppppppp/8/8/8/8/PPPPPPPP/RNBQKBNR
PlStart ==
    <<"r", "n", "b", "q", "k", "b", "n", "r", "/", "p", "p", "p", "p", "p",
      "p", "p", "p", "/", "8", "/", "8", "/", "8", "/", "8", "/", "P", "P",
      "P", "P", "P", "P", "P", "P", "/", "R", "N", "B", "Q", "K", "B", "N",
      "R">>

\* 4k3/8/8/8/8/8/8/4K3
PlKings ==
    <<"4", "k", "3", "/", "8", "/", "8", "/", "8", "/", "8", "/", "8", "/",
      "8", "/", "4", "K", "3">>

\* 4k3/8/8/8/44/8/8/4K3: a rank written 44: eight squares, two digits
PlSplitDigits ==
    <<"4", "k", "3", "/", "8", "/", "8", "/", "8", "/", "4", "4", "/", "8",
      "/", "8", "/", "4", "K", "3">>

\* 4k3/8/8/8/8/8/n7/4K3P: the first rank covers nine squares
PlLongRank ==
    <<"4", "k", "3", "/", "8", "/", "8", "/", "8", "/", "8", "/", "8", "/",
      "n", "7", "/", "4", "K", "3", "P">>

\* 4k3P/8/8/8/8/8/8/4K3: the eighth rank covers nine squares
PlLongTopRank ==
    <<"4", "k", "3", "P", "/", "8", "/", "8", "/", "8", "/", "8", "/", "8",
      "/", "8", "/", "4", "K", "3">>

\* ppppppppp/8/8/8/8/8/8/4K3: a rank of nine letters
PlNineLetters ==
    <<"p", "p", "p", "p", "p", "p", "p", "p", "p", "/", "8", "/", "8", "/",
      "8", "/", "8", "/", "8", "/", "8", "/", "4", "K", "3">>

\* 4k3/8/8/8/8/8/4K3: seven ranks
PlSevenRanks ==
    <<"4", "k", "3", "/", "8", "/", "8", "/", "8", "/", "8", "/", "8", "/",
      "4", "K", "3">>

\* 4k3/8/8/8/8/8/8/8/4K3: nine ranks
PlNineRanks ==
    <<"4", "k", "3", "/", "8", "/", "8", "/", "8", "/", "8", "/", "8", "/",
      "8", "/", "8", "/", "4", "K", "3">>

\* x4k3/8/8/8/8/8/8/4K3: an unknown piece letter, first
PlLeadingX ==
    <<"x", "4", "k", "3", "/", "8", "/", "8", "/", "8", "/", "8", "/", "8",
      "/", "8", "/", "4", "K", "3">>

\* 4k3/8/8/8/8/8/8/4Kx2: an unknown piece letter, inside
PlInnerX ==
    <<"4", "k", "3", "/", "8", "/", "8", "/", "8", "/", "8", "/", "8", "/",
      "8", "/", "4", "K", "x", "2">>

FenPlacements ==
    {PlStart, PlKings, PlSplitDigits, PlLongRank, PlLongTopRank, PlNineLetters,
     PlSevenRanks, PlNineRanks, PlLeadingX, PlInnerX}

FenSides == {<<"w">>, <<"b">>}

FenCastlings == {<<"-">>, <<"K", "Q", "k", "q">>, <<"K", "q">>, <<"q", "K">>}

FenEps == {<<"-">>, <<"e", "3">>, <<"e">>}

FenHalfMoves == {<<"0">>, <<"1", "2">>, <<"2", "5", "5">>, <<"2", "5", "6">>}

FenFullMoves ==
    {<<"1">>, <<"6", "5", "5", "3", "5">>, <<"6", "5", "5", "3", "6">>, <<"0", "7">>}

FenText(placement, side, castling, ep, half, full) ==
    placement \o <<" ">> \o side \o <<" ">> \o castling \o <<" ">> \o ep
        \o <<" ">> \o half \o <<" ">> \o full

\* five fields; a clock that is no number
FenOddTexts ==
    {PlKings \o <<" ", "w", " ", "-", " ", "-", " ", "0">>,
     PlKings \o <<" ", "w", " ", "-", " ", "-", " ", "x", " ", "1">>}

FenInputs ==
    {FenText(x[1], x[2], x[3], x[4], x[5], x[6]) :
        x \in FenPlacements \X FenSides \X FenCastlings \X FenEps
                \X FenHalfMoves \X FenFullMoves}
    \cup FenOddTexts

InitNoFen ==
    /\ InitStart
    /\ last = NoOp
    /\ saved = board
    /\ ops = 0

\* the Result of parse_fen(text) arrives; the caller's board is the Ok value
ParseFenOf(text, result) ==
    /\ fen' = text
    /\ parsed' = result
    /\ board' = IF result.tag = "Ok" THEN result.board ELSE board

\* Board::parse_fen(text)
ParseFen ==
    /\ parsed = NotParsed
    /\ \E text \in FenInputs : ParseFenOf(text, parse_fen(text))
    /\ last' = [op |-> "parse_fen", uci |-> "", ok |-> TRUE, undoes_push |-> FALSE]
    /\ ops' = ops + 1
    /\ UNCHANGED saved
    /\ UNCHANGED engine

NextFen == ParseFen

SpecFen == InitNoFen /\ [][NextFen]_vars

----------------------------------------------------------------------------
(* The repetition driver: knights going out and back                        *)

ShuffleUci == {"g1f3", "f3g1", "g8f6", "f6g8", "e2e4"}

\* the longest operation sequence of the repetition driver
MaxShuffle == 9

ShufflePush ==
    /\ ops < MaxShuffle
    /\ \E uci_move \in ShuffleUci : PushUciOf(legal_moves(board), uci_move)
    /\ saved' = board
    /\ ops' = ops + 1
    /\ UNCHANGED <<fen, parsed>>
    /\ UNCHANGED engine

ShufflePop ==
    /\ ops < MaxShuffle
    /\ board' = pop(board)
    /\ last' = [op |-> "pop", uci |-> "", ok |-> TRUE,
                undoes_push |-> last.op \in {"push", "push_uci"} /\ last.ok]
    /\ ops' = ops + 1
    /\ UNCHANGED <<saved, fen, parsed>>
    /\ UNCHANGED engine

NextRepetition == ShufflePush \/ ShufflePop

SpecRepetition == InitNoFen /\ [][NextRepetition]_vars

----------------------------------------------------------------------------
(* Properties of make and unmake                                            *)

\* C1: after push(M) followed by pop() every field of the Board equals its
\* value before the push, so the board compares equal to a copy taken before
\* the push.
PushPopRestoresBoard ==
    (last.op = "pop" /\ last.undoes_push) => board = saved

\* the hash of a board written out from its placement, side, rights and
\* en-passant square
ScratchHash(b) ==
    {piece_keys(x[1], x[2], x[3]) :
        x \in {y \in Sides \X Pieces \X Squares :
                y[3] \in get_pieces(b, y[1]) \cap b[KindField(y[2])]}}
    \cup (IF b.side_to_move = "Black" THEN {black_to_move_key} ELSE {})
    \cup {short_castling_keys(side) : side \in {x \in Sides : can_castle_short(b, x)}}
    \cup {long_castling_keys(side) : side \in {x \in Sides : can_castle_long(b, x)}}
    \cup {en_passant_file_keys(file(s)) : s \in b.ep_square}

\* C2: in every state reached by parse_fen or starting_position and then
\* pushes and pops, hash() equals the hash recomputed from scratch.
HashIsRecomputed == hash(board) = ScratchHash(board)

----------------------------------------------------------------------------
(* Properties of move generation                                            *)

NoDuplicates(moves) == \A i, j \in DOMAIN moves : moves[i] = moves[j] => i = j

\* the from-square holds a piece of the side to move of the kind the move
\* names, the to-square holds no piece of the side to move
MoveSquaresFit(b, m) ==
    /\ move_from(m) \in get_pieces(b, b.side_to_move) \cap b[KindField(move_piece(m))]
    /\ move_to(m) \notin get_pieces(b, b.side_to_move)

\* after push(m) the king of the side that moved is attacked by no enemy piece
KingSafeAfter(b, m) == ~RulesInCheck(RulesPlacement(push(b, m)), b.side_to_move)

\* C3: legal_moves() has no duplicate; each move starts on a square holding
\* a piece of the side to move of the kind it names and ends on a square the
\* side to move does not hold; after push(M) of a returned M the king of the
\* side that moved is not attacked.
LegalMovesSound ==
    /\ NoDuplicates(legal_moves(board))
    /\ \A m \in Range(legal_moves(board)) :
            MoveSquaresFit(board, m) /\ KingSafeAfter(board, m)

\* a position in check with a pinned own piece and a move that answers the
\* check
LegalMovesSoundWitness ==
    /\ RulesInCheck(RulesPlacement(board), board.side_to_move)
    /\ diagonal_pins(board, own_pieces_of(board), enemy_pieces_of(board)) # {}
    /\ legal_moves(board) # <<>>

\* C4: legal_moves() is complete: every move the rules of chess allow the
\* side to move is in the returned list.
LegalMovesComplete == RulesLegalMoves(board) \subseteq Range(legal_moves(board))

\* the en-passant captures open to the side to move before king safety
RulesEnPassant(b) ==
    {m \in RulesPawnMoves(RulesPlacement(b), b.side_to_move, b.ep_square) :
        m.kind = "EnPassantCapture"}

EnPassantSafe(b, m) ==
    ~RulesInCheck(RulesAfter(RulesPlacement(b), b.side_to_move, m), b.side_to_move)

\* C5: with ep_square set, legal_moves() emits the en-passant capture by an
\* own pawn attacking ep_square exactly when the capture does not leave the
\* own king in check.
EnPassantExactlyWhenSafe ==
    /\ \A m \in RulesEnPassant(board) :
            m \in Range(legal_moves(board)) <=> EnPassantSafe(board, m)
    /\ {m \in Range(legal_moves(board)) : m.kind = "EnPassantCapture"}
            \subseteq RulesEnPassant(board)

----------------------------------------------------------------------------
(* Properties of push_uci                                                   *)

UciDistinct(moves) ==
    \A i, j \in DOMAIN moves :
        to_uci_string(moves[i]) = to_uci_string(moves[j]) => i = j

\* the legal moves of a board written as a given string
MovesWritten(moves, uci_move) == {m \in Range(moves) : to_uci_string(m) = uci_move}

PushUciResult(before, after, written, ok) ==
    IF written = {} THEN ~ok /\ after = before
    ELSE ok /\ Cardinality(written) = 1 /\ \A m \in written : after = push(before, m)

\* C9: push_uci(s) returns Err and leaves the board unchanged when no legal
\* move is written s; otherwise it returns Ok and has pushed the only legal
\* move written s; the UCI strings of the legal moves are pairwise distinct.
PushUciContract ==
    /\ UciDistinct(legal_moves(board))
    /\ last.op = "push_uci" =>
            PushUciResult(saved, board, MovesWritten(legal_moves(saved), last.uci),
                          last.ok)

\* a promotion written without its piece letter is refused where the four
\* promotions are legal
PushUciContractWitness ==
    /\ last.op = "push_uci"
    /\ last.uci = "b7b8"
    /\ ~last.ok
    /\ Cardinality({m \in Range(legal_moves(board)) :
                        m.kind = "Promotion" /\ m.from = 49 /\ m.to = 57}) = 4

----------------------------------------------------------------------------
(* Properties of FEN input and output                                       *)

PieceLetters == {"R", "N", "B", "Q", "K", "P", "r", "n", "b", "q", "k", "p"}

SquareDigits == {"1", "2", "3", "4", "5", "6", "7", "8"}

\* the squares a rank text covers: a digit its value, any other character 1
RECURSIVE RankSquares(_)
RankSquares(r) ==
    IF r = <<>> THEN 0
    ELSE (IF Head(r) \in SquareDigits THEN DigitVal(Head(r)) ELSE 1)
            + RankSquares(Tail(r))

FenFields(text) == SplitOn(text, " ")

FenRanks(text) == SplitOn(FenFields(text)[1], "/")

EightRanksOfEight(text) ==
    /\ Len(FenRanks(text)) = 8
    /\ \A i \in 1 .. 8 :
        /\ Chars(FenRanks(text)[i]) \subseteq PieceLetters \cup SquareDigits
        /\ RankSquares(FenRanks(text)[i]) = 8

\* a number written in digits without a leading zero, at most max
PlainNumber(t, max) ==
    /\ t # <<>>
    /\ \A c \in Chars(t) : IsDigit(c)
    /\ Len(t) > 1 => t[1] # "0"
    /\ ParseDigits(t, 0, max) # -1

WellFormedFen(text) ==
    /\ Len(FenFields(text)) = 6
    /\ EightRanksOfEight(text)
    /\ FenFields(text)[2] \in {<<"w">>, <<"b">>}
    /\ FenFields(text)[3] \in CastlingWords \ {<<>>}
    /\ \/ FenFields(text)[4] = <<"-">>
       \/ /\ Len(FenFields(text)[4]) = 2
          /\ FenFields(text)[4][1] \in Chars(FileChars)
          /\ FenFields(text)[4][2] \in Chars(RankChars)
    /\ PlainNumber(FenFields(text)[5], U8_MAX)
    /\ PlainNumber(FenFields(text)[6], U16_MAX)

\* no rank writes a run of empty squares as two digits
NoAdjacentDigits(t) ==
    \A i \in 1 .. Len(t) - 1 : ~(t[i] \in SquareDigits /\ t[i + 1] \in SquareDigits)

RoundTrips(text, result) ==
    result.tag = "Ok" /\ to_fen_string(result.board) = text

\* C6 as stated: for every well-formed six-field FEN string s, parse_fen(s)
\* succeeds and to_fen_string() of the result equals s.
FenTextRoundTrip ==
    (parsed # NotParsed /\ WellFormedFen(fen)) => RoundTrips(fen, parsed)

\* C6: for every well-formed six-field FEN string s in which no rank has two
\* adjacent digits, parse_fen(s) succeeds and to_fen_string() of the result
\* equals s.
FenTextRoundTripCanonical ==
    (parsed # NotParsed /\ WellFormedFen(fen) /\ NoAdjacentDigits(FenFields(fen)[1]))
        => RoundTrips(fen, parsed)

\* a well-formed text with castling rights, an en-passant square and the
\* largest clocks has been parsed and written back
FenTextRoundTripWitness ==
    /\ last.op = "parse_fen"
    /\ WellFormedFen(fen)
    /\ NoAdjacentDigits(FenFields(fen)[1])
    /\ parsed.tag = "Ok"
    /\ board.castling_rights # 0
    /\ board.ep_square # {}
    /\ board.half_move_clock = U8_MAX
    /\ board.full_move_number = U16_MAX
    /\ to_fen_string(board) = fen

\* a board without its move stack, repetition history and repetition flag
SansHistory(b) ==
    [b EXCEPT !.move_stack = <<>>, !.hash_history = HistoryNew,
              !.is_threefold_repetition = FALSE]

\* C7 as stated: parse_fen(b.to_fen_string()) succeeds and returns a Board
\* equal to b.
FenOfBoardRoundTrip ==
    parse_fen(to_fen_string(board)) = [tag |-> "Ok", board |-> board]

FenOfBoardAgrees(b, result, fresh) ==
    /\ result.tag = "Ok"
    /\ SansHistory(result.board) = SansHistory(b)
    /\ fresh => result.board = b

\* C7: parse_fen(b.to_fen_string()) succeeds and returns a Board that agrees
\* with b in every field but move_stack, hash_history and
\* is_threefold_repetition; it equals b when nothing has been pushed yet.
FenOfBoardRoundTripSansHistory ==
    FenOfBoardAgrees(board, parse_fen(to_fen_string(board)), last = NoOp)

\* a pawn's double push has set the en-passant square and the round trip
\* loses the move stack
FenOfBoardRoundTripWitness ==
    /\ last.op = "push"
    /\ board.ep_square # {}
    /\ board.move_stack # <<>>
    /\ parse_fen(to_fen_string(board)).tag = "Ok"
    /\ parse_fen(to_fen_string(board)).board.move_stack = <<>>

\* a clock that does not parse into an integer of the given width
BadClock(t, max) ==
    \/ t = <<>>
    \/ \E c \in Chars(t) : ~IsDigit(c)
    \/ ParseDigits(t, 0, max) = -1

\* the wrong number of ranks, a rank covering more than 8 squares, an unknown
\* piece letter, or a clock that does not parse
MalformedFen(text) ==
    /\ Len(FenFields(text)) = 6
    /\ \/ Len(FenRanks(text)) # 8
       \/ \E i \in 1 .. Len(FenRanks(text)) : RankSquares(FenRanks(text)[i]) > 8
       \/ \E c \in Chars(FenFields(text)[1]) :
            c \notin PieceLetters \cup SquareDigits \cup {"/"}
       \/ BadClock(FenFields(text)[5], U8_MAX)
       \/ BadClock(FenFields(text)[6], U16_MAX)

\* C8: parse_fen returns Err, without panicking and without yielding a
\* Board, for every malformed FEN string.
MalformedFenIsErr ==
    (parsed # NotParsed /\ MalformedFen(fen)) => parsed.tag = "Err"

----------------------------------------------------------------------------
(* Properties of the repetition flag                                        *)

\* C10: is_draw_by_threefold_repetition() is true if and only if the hash
\* of the current position is recorded at least 3 times in hash_history.
ThreefoldIffRecorded ==
    is_draw_by_threefold_repetition(board)
        <=> HistoryCount(board.hash_history, hash(board)) >= 3

----------------------------------------------------------------------------
(* The clock driver: a long run of pushes from the starting position        *)

is_draw_by_fifty_move_rule(b) == b.half_move_clock >= 100

\* the arms of push that set half_move_clock = 0
ResetsClock(m) ==
    \/ m.kind \in {"EnPassantCapture", "Promotion"}
    \/ m.kind = "Regular" /\ (m.piece = "Pawn" \/ is_capture(m))

\* half_move_clock += 1 on a u8 that holds 255
ClockOverflows(b, m) == b.half_move_clock = U8_MAX /\ ~ResetsClock(m)

\* what push(m) can do: the addition that overflows aborts in a build with
\* overflow checks and wraps in a build without them
PushOutcomes(b, m) ==
    {[tag |-> "Ok", board |-> push(b, m)]}
    \cup (IF ClockOverflows(b, m) THEN {[tag |-> "Abort", board |-> b]} ELSE {})

KnightUci == {"g1f3", "g8f6", "f3g1", "f6g8"}

PawnUci == {"e2e4", "e7e5", "e4e5"}

\* the longest run of the clock driver
MaxClockOps == 256

\* pawn moves are played in the first operations only
MaxPawnOps == 2

ClockPushOf(moves, i, uci_move) ==
    /\ i # 0
    /\ \E r \in PushOutcomes(board, moves[i]) :
        /\ board' = r.board
        /\ last' = [op |-> IF r.tag = "Ok" THEN "push_uci" ELSE "abort",
                    uci |-> uci_move, ok |-> r.tag = "Ok", undoes_push |-> FALSE]

ClockPushAny(moves, strings) ==
    \E uci_move \in strings : ClockPushOf(moves, FindUci(moves, uci_move), uci_move)

\* push_uci of a knight move
ClockKnight ==
    /\ ops < MaxClockOps
    /\ last.op # "abort"
    /\ ClockPushAny(legal_moves(board), KnightUci)
    /\ saved' = board
    /\ ops' = ops + 1
    /\ UNCHANGED <<fen, parsed>>
    /\ UNCHANGED engine

\* push_uci of a pawn move
ClockPawn ==
    /\ ops < MaxPawnOps
    /\ last.op # "abort"
    /\ ClockPushAny(legal_moves(board), PawnUci)
    /\ saved' = board
    /\ ops' = ops + 1
    /\ UNCHANGED <<fen, parsed>>
    /\ UNCHANGED engine

NextClock == ClockKnight \/ ClockPawn

SpecClock == InitNoFen /\ [][NextClock]_vars

\* the move the last push applied
LastPushed(b) == b.move_stack[Len(b.move_stack)][1]

ClockAfterPush(before, after, m) ==
    /\ after.half_move_clock = IF ResetsClock(m) THEN 0 ELSE before.half_move_clock + 1
    /\ after.full_move_number =
            IF before.side_to_move = "Black" THEN before.full_move_number + 1
            ELSE before.full_move_number

\* C11: after push(M) half_move_clock is 0 when M is a pawn move, a capture,
\* an en-passant capture or a promotion and the previous value plus one
\* otherwise, without wrapping or aborting; full_move_number grows by one on
\* each push by Black and is unchanged on a push by White;
\* is_draw_by_fifty_move_rule() is true iff half_move_clock >= 100.
ClockCounts ==
    /\ last.op # "abort"
    /\ last.op = "push_uci" => ClockAfterPush(saved, board, LastPushed(board))
    /\ is_draw_by_fifty_move_rule(board) <=> board.half_move_clock >= 100

----------------------------------------------------------------------------
(* Properties of the castling rights                                        *)

\* the corner a rook castles from
ShortCorner(side) == from_coords(back_rank(side), 7)

LongCorner(side) == from_coords(back_rank(side), 0)

KingHome(side) == IF side = "White" THEN e1 ELSE e8

\* what the rules of push do to one right of `side`, m pushed by `mover`
ClearsRight(mover, m, side, corner) ==
    \/ side = mover /\ move_piece(m) = "King"
    \/ side = mover /\ m.kind = "Regular" /\ m.piece = "Rook" /\ m.from = corner
    \/ side # mover /\ captured_piece(m) = "Rook" /\ m.kind # "EnPassantCapture"
        /\ move_to(m) = corner

RightsAfterPush(before, after, m) ==
    \A side \in Sides :
        /\ can_castle_short(after, side) <=>
                (can_castle_short(before, side)
                    /\ ~ClearsRight(before.side_to_move, m, side, ShortCorner(side)))
        /\ can_castle_long(after, side) <=>
                (can_castle_long(before, side)
                    /\ ~ClearsRight(before.side_to_move, m, side, LongCorner(side)))

\* a side that holds a right has its king at home and a rook on the corner
RightsHavePieces(b) ==
    \A side \in Sides :
        /\ can_castle_short(b, side) =>
                /\ KingHome(side) \in get_pieces(b, side) \cap b.kings
                /\ ShortCorner(side) \in get_pieces(b, side) \cap b.rooks
        /\ can_castle_long(b, side) =>
                /\ KingHome(side) \in get_pieces(b, side) \cap b.kings
                /\ LongCorner(side) \in get_pieces(b, side) \cap b.rooks

\* the key of a right is in the hash exactly while the right is held
RightsKeyed(b) ==
    \A side \in Sides :
        /\ short_castling_keys(side) \in hash(b) <=> can_castle_short(b, side)
        /\ long_castling_keys(side) \in hash(b) <=> can_castle_long(b, side)

\* C12: a king move or castling clears both rights of the mover, a rook
\* move from a corner clears that right of the mover, a capture of a rook on
\* a corner clears that right of the captured side, and no push sets a
\* right; a side holding a right has its king on e1/e8 and a rook on the
\* corner; each change of a right flips its Zobrist key once.
CastlingRightsKept ==
    /\ (last.op \in {"push", "push_uci"} /\ last.ok)
            => RightsAfterPush(saved, board, LastPushed(board))
    /\ RightsHavePieces(board)
    /\ RightsKeyed(board)

\* a promotion has captured the rook on a8 and Black has lost the long right
CastlingRightsKeptWitness ==
    /\ last.op = "push"
    /\ LastPushed(board).kind = "Promotion"
    /\ captured_piece(LastPushed(board)) = "Rook"
    /\ can_castle_long(saved, "Black")
    /\ ~can_castle_long(board, "Black")
    /\ can_castle_short(board, "White")

----------------------------------------------------------------------------
(* Transposition table (chessica-engine/src/search.rs)                      *)
(*                                                                          *)
(* A stored position_hash is kept as the set of Zobrist keys it is the XOR  *)
(* of, so two entries have equal hashes exactly when the key sets are       *)
(* equal; the empty set is the u64 0 of TTEntry::empty().  The slot of a    *)
(* hash depends on the values of the keys, which differ from run to run:    *)
(* KeyValue fixes one sample of them.                                       *)

\* enum Score
LowerBound(s) == [kind |-> "LowerBound", score |-> s]

UpperBound(s) == [kind |-> "UpperBound", score |-> s]

Exact(s) == [kind |-> "Exact", score |-> s]

\* impl Neg for Score
NegScore(sc) ==
    CASE sc.kind = "Exact" -> Exact(-sc.score)
      [] sc.kind = "LowerBound" -> UpperBound(-sc.score)
      [] sc.kind = "UpperBound" -> LowerBound(-sc.score)

\* enum TTScore
TTAlpha(s) == [kind |-> "Alpha", score |-> s]

TTBeta(s, m) == [kind |-> "Beta", score |-> s, move |-> m]

TTPv(s, m) == [kind |-> "Pv", score |-> s, move |-> m]

TTNone == [kind |-> "None"]

\* Option<T>
NoneOpt == [tag |-> "None"]

Some(x) == [tag |-> "Some", value |-> x]

TTEntry_empty == [position_hash |-> {}, depth |-> 0, score |-> TTNone]

\* the value of one Zobrist key in the sampled run
KeyValue(k) == k + 1

\* the u64 a Board's hash() returns: the XOR of its keys
\* bit i of the XOR is the parity of the keys that have bit i set
RECURSIVE XorFrom(_, _)
XorFrom(h, i) ==
    IF \A k \in h : KeyValue(k) < 2 ^ i THEN 0
    ELSE 2 ^ i * (Cardinality({k \in h : (KeyValue(k) \div 2 ^ i) % 2 = 1}) % 2)
         + XorFrom(h, i + 1)

HashValue(h) == XorFrom(h, 0)

\* TranspositionTable::new(key_bits): size = 43 + (1 << key_bits)
TranspositionTable_new(key_bits) ==
    LET size == 43 + 2 ^ key_bits
    IN  [size |-> size, entries |-> [i \in 0 .. size - 1 |-> TTEntry_empty]]

\* idx = position.hash() as usize % self.size
TTIdx(table, position) == HashValue(hash(position)) % table.size

\* put that always writes the slot
tt_put_always(table, position, depth, score) ==
    [table EXCEPT !.entries[TTIdx(table, position)] =
            [position_hash |-> hash(position), depth |-> depth, score |-> score]]

\* get that does not compare the stored hash
tt_get_any_hash(table, position, depth, alpha, beta) ==
    LET entry == table.entries[TTIdx(table, position)]
    IN  IF entry.depth >= depth
        THEN CASE entry.score.kind = "Pv" -> Some(Exact(entry.score.score))
               [] entry.score.kind = "Alpha" /\ entry.score.score <= alpha ->
                        Some(UpperBound(entry.score.score))
               [] entry.score.kind = "Beta" /\ entry.score.score >= beta ->
                        Some(LowerBound(entry.score.score))
               [] OTHER -> NoneOpt
        ELSE NoneOpt

tt_put(table, position, depth, score) ==
    LET idx == TTIdx(table, position)
        entry == table.entries[idx]
    IN  IF entry.position_hash = hash(position) /\ depth < entry.depth
        THEN table
        ELSE [table EXCEPT !.entries[idx] =
                    [position_hash |-> hash(position), depth |-> depth,
                     score |-> score]]

tt_get(table, position, depth, alpha, beta) ==
    LET entry == table.entries[TTIdx(table, position)]
    IN  IF entry.depth >= depth /\ entry.position_hash = hash(position)
        THEN CASE entry.score.kind = "Pv" -> Some(Exact(entry.score.score))
               [] entry.score.kind = "Alpha" /\ entry.score.score <= alpha ->
                        Some(UpperBound(entry.score.score))
               [] entry.score.kind = "Beta" /\ entry.score.score >= beta ->
                        Some(LowerBound(entry.score.score))
               [] OTHER -> NoneOpt
        ELSE NoneOpt

tt_get_pv_move(table, position) ==
    LET entry == table.entries[TTIdx(table, position)]
    IN  IF entry.position_hash = hash(position) /\ entry.score.kind = "Pv"
        THEN Some(entry.score.move)
        ELSE NoneOpt

tt_get_move(table, position) ==
    LET entry == table.entries[TTIdx(table, position)]
    IN  IF entry.position_hash = hash(position)
           /\ entry.score.kind \in {"Pv", "Beta"}
        THEN Some(entry.score.move)
        ELSE NoneOpt

tt_clear(table) ==
    [table EXCEPT !.entries = [i \in DOMAIN @ |-> TTEntry_empty]]

----------------------------------------------------------------------------
(* Driver of the transposition table: put, get, get_move and clear on a     *)
(* table of 44 slots, for the board without pieces (hash 0) and two         *)
(* positions that share a slot.  A run is a sequence of put and clear       *)
(* ended by one lookup, which leaves the table as it is.                    *)

EmptyFen ==
    <<"8", "/", "8", "/", "8", "/", "8", "/", "8", "/", "8", "/", "8", "/", "8",
      " ", "w", " ", "-", " ", "-", " ", "0", " ", "1">>

TTPositions ==
    {parse_fen(EmptyFen).board} \cup
    {push_uci(starting_position, u).board : u \in {"g1f3", "b1c3"}}

\* search depths and scores stored and asked for
MaxTTDepth == 1

\* the move stored with a lower bound or an exact score
TTMove == Regular("Pawn", 12, 28, "None")

TTScores == {TTAlpha(0), TTBeta(0, TTMove), TTPv(-10, TTMove), TTPv(10, TTMove)}

TTWindows == {-10, 0, 10}

\* the longest sequence of put and clear
MaxPuts == 2

InitTT ==
    /\ board = starting_position
    /\ last = NoOp
    /\ saved = board
    /\ ops = 0
    /\ fen = <<>>
    /\ parsed = NotParsed
    /\ tt = TranspositionTable_new(0)
    /\ search = [max_depth |-> 0, last_pv |-> <<>>]
    /\ out = [op |-> "none"]
    /\ stored = <<>>
    /\ positions = TTPositions

\* no lookup has ended the run
TTOpen == out.op \notin {"get", "get_move"}

\* the put wrote its slot: the incumbent is not a deeper entry of this hash
PutWrites(entry, h, depth) == ~(entry.position_hash = h /\ entry.depth > depth)

Remember(h, depth, score) ==
    [x \in DOMAIN stored \cup {h} |->
        IF x = h THEN [depth |-> depth, score |-> score] ELSE stored[x]]

TTPutOf(position, depth, score) ==
    /\ tt' = tt_put(tt, position, depth, score)
    /\ out' = [op |-> "put", position_hash |-> hash(position), depth |-> depth,
               score |-> score, before |-> tt]
    /\ stored' = IF PutWrites(tt.entries[TTIdx(tt, position)], hash(position), depth)
                 THEN Remember(hash(position), depth, score)
                 ELSE stored

TTPut ==
    /\ ops < MaxPuts
    /\ TTOpen
    /\ \E position \in positions :
         \E depth \in 0 .. MaxTTDepth, score \in TTScores :
            TTPutOf(position, depth, score)
    /\ ops' = ops + 1
    /\ UNCHANGED <<board, last, saved, fen, parsed, search, positions>>

TTClear ==
    /\ ops < MaxPuts
    /\ TTOpen
    /\ tt' = tt_clear(tt)
    /\ out' = [op |-> "clear"]
    /\ stored' = <<>>
    /\ ops' = ops + 1
    /\ UNCHANGED <<board, last, saved, fen, parsed, search, positions>>

TTGet ==
    /\ TTOpen
    /\ \E position \in positions :
         \E depth \in 0 .. MaxTTDepth, alpha \in TTWindows, beta \in TTWindows :
            /\ alpha < beta
            /\ out' = [op |-> "get", position_hash |-> hash(position),
                       idx |-> TTIdx(tt, position), depth |-> depth,
                       alpha |-> alpha, beta |-> beta,
                       result |-> tt_get(tt, position, depth, alpha, beta)]
    /\ UNCHANGED <<board, last, saved, ops, fen, parsed, tt, search, stored,
                   positions>>

TTGetMove ==
    /\ TTOpen
    /\ \E position \in positions :
            out' = [op |-> "get_move", position_hash |-> hash(position),
                    idx |-> TTIdx(tt, position),
                    result |-> tt_get_move(tt, position),
                    pv |-> tt_get_pv_move(tt, position)]
    /\ UNCHANGED <<board, last, saved, ops, fen, parsed, tt, search, stored,
                   positions>>

NextTT == TTPut \/ TTClear \/ TTGet \/ TTGetMove

SpecTT == InitTT /\ [][NextTT]_vars

----------------------------------------------------------------------------
(* Replacement policy of put                                                *)

PutIdx == HashValue(out.position_hash) % tt.size

PutEntry == [position_hash |-> out.position_hash, depth |-> out.depth,
             score |-> out.score]

PutIncumbent == out.before.entries[PutIdx]

\* C13: a put leaves its slot unchanged when the incumbent has the same
\* position hash and a strictly greater depth, and overwrites it with the
\* new entry in every other case; no other slot changes.  Hence the depth
\* of a slot that keeps its hash never decreases, and a put for another
\* hash replaces the incumbent whatever its depth.
PutReplacementPolicy ==
    out.op = "put" =>
        /\ tt.entries = [out.before.entries EXCEPT ![PutIdx] =
                            IF PutIncumbent.position_hash = out.position_hash
                               /\ PutIncumbent.depth > out.depth
                            THEN PutIncumbent ELSE PutEntry]
        /\ tt.entries[PutIdx].position_hash = PutIncumbent.position_hash
                => tt.entries[PutIdx].depth >= PutIncumbent.depth
        /\ PutIncumbent.position_hash # out.position_hash
                => tt.entries[PutIdx] = PutEntry

\* a shallower put with another score for the stored position was dropped
PutReplacementPolicyWitness ==
    /\ out.op = "put"
    /\ PutIncumbent.position_hash = out.position_hash
    /\ PutIncumbent.depth > out.depth
    /\ PutIncumbent.score # out.score
    /\ tt = out.before

----------------------------------------------------------------------------
(* Lookups                                                                  *)

GetEntry == tt.entries[out.idx]

GetHolds ==
    /\ GetEntry.position_hash = out.position_hash
    /\ GetEntry.depth >= out.depth
    /\ \/ GetEntry.score.kind = "Pv"
       \/ GetEntry.score.kind = "Alpha" /\ GetEntry.score.score <= out.alpha
       \/ GetEntry.score.kind = "Beta" /\ GetEntry.score.score >= out.beta

GetKind ==
    CASE GetEntry.score.kind = "Pv" -> "Exact"
      [] GetEntry.score.kind = "Alpha" -> "UpperBound"
      [] GetEntry.score.kind = "Beta" -> "LowerBound"

\* C14: get returns a score exactly when the slot of the position holds an
\* entry of the same full hash and at least the asked depth that is exact,
\* or an upper bound not above alpha, or a lower bound not below beta; the
\* score returned is the one the last put that wrote the slot for this hash
\* stored.  After clear every get misses and get_move and get_pv_move
\* return no move.
GetReturnsStored ==
    /\ out.op = "get" =>
        /\ out.result.tag = "Some" <=> GetHolds
        /\ out.result.tag = "Some" =>
            /\ out.position_hash \in DOMAIN stored
            /\ stored[out.position_hash].score.kind = GetEntry.score.kind
            /\ out.result.value =
                    [kind |-> GetKind,
                     score |-> stored[out.position_hash].score.score]
        /\ DOMAIN stored = {} => out.result = NoneOpt
    /\ out.op = "get_move" =>
        /\ out.result.tag = "Some" =>
            /\ out.position_hash \in DOMAIN stored
            /\ out.result.value = stored[out.position_hash].score.move
        /\ DOMAIN stored = {} => out.result = NoneOpt /\ out.pv = NoneOpt

\* a bound stored for one of two positions sharing a slot is returned after
\* the other position's entry was replaced
GetReturnsStoredWitness ==
    /\ out.op = "get"
    /\ out.result.tag = "Some"
    /\ out.result.value.kind = "UpperBound"
    /\ Cardinality(DOMAIN stored) = 2
    /\ \E h \in DOMAIN stored :
            h # out.position_hash /\ HashValue(h) % tt.size = out.idx

----------------------------------------------------------------------------
(* Static exchange evaluation (board.rs)                                    *)

\* the attacker kinds in the order the loop tries them: the piece that
\* lands on the square and the rays its attackers need free
SeeKinds ==
    <<[piece |-> "Pawn", ray |-> "none"], [piece |-> "Knight", ray |-> "none"],
      [piece |-> "Bishop", ray |-> "bishop"], [piece |-> "Rook", ray |-> "rook"],
      [piece |-> "Queen", ray |-> "bishop"], [piece |-> "Queen", ray |-> "rook"],
      [piece |-> "King", ray |-> "none"]>>

\* blocker_mask of a kind: Some(bishop_mask), Some(rook_mask) or None
SeeMask(to, ray) ==
    CASE ray = "bishop" -> Some(BISHOPS_MOVE(to))
      [] ray = "rook" -> Some(ROOKS_MOVE(to))
      [] OTHER -> NoneOpt

\* the attackers of one side by kind, own_pieces without the moving piece
SeeAttackers(b, to, pieces, pawn_side) ==
    <<b.pawns \cap pieces \cap pawn_captures({to}, pawn_side),
      b.knights \cap KNIGHTS_MOVE(to) \cap pieces,
      b.bishops \cap BISHOPS_MOVE(to) \cap pieces,
      b.rooks \cap ROOKS_MOVE(to) \cap pieces,
      b.queens \cap BISHOPS_MOVE(to) \cap pieces,
      b.queens \cap ROOKS_MOVE(to) \cap pieces,
      b.kings \cap KINGS_MOVE(to) \cap pieces>>

\* if own_king.any() && enemy_king.any() { neither king takes part }
SeeDropKings(own, enemy) ==
    IF own[7] # {} /\ enemy[7] # {}
    THEN <<[own EXCEPT ![7] = {}], [enemy EXCEPT ![7] = {}]>>
    ELSE <<own, enemy>>

\* the attacker has nothing but itself on its ray to the square
RayFree(a, square, all_pieces, blockers) ==
    \/ blockers = NoneOpt
    \/ Cardinality(BOUNDING_BOX(a, square) \cap all_pieces \cap blockers.value) = 1

\* _pop_attacker: attackers.find(..) runs the bitboard's own iterator, which
\* removes every square it yields, so the attackers tried before the one
\* found, and all of them when none is found, are gone from the set
pop_attacker(square, attackers, all_pieces, blockers) ==
    LET fits == {a \in attackers : RayFree(a, square, all_pieces, blockers)}
    IN  IF fits = {}
        THEN [found |-> FALSE, attackers |-> {}, all_pieces |-> all_pieces]
        ELSE [found |-> TRUE,
              attackers |-> {x \in attackers : x > Min(fits)},
              all_pieces |-> all_pieces \ {Min(fits)}]

\* the if / else if chain over the kinds of one side, from kind i on
RECURSIVE PopFirst(_, _, _, _)
PopFirst(to, sets, all_pieces, i) ==
    IF i > Len(SeeKinds)
    THEN [found |-> FALSE, sets |-> sets, all_pieces |-> all_pieces]
    ELSE LET r == pop_attacker(to, sets[i], all_pieces, SeeMask(to, SeeKinds[i].ray))
         IN  IF r.found
             THEN [found |-> TRUE, piece |-> SeeKinds[i].piece,
                   sets |-> [sets EXCEPT ![i] = r.attackers],
                   all_pieces |-> r.all_pieces]
             ELSE PopFirst(to, [sets EXCEPT ![i] = r.attackers], all_pieces, i + 1)

\* the loop: the enemy recaptures, then the mover's side, until one cannot
RECURSIVE SeeLoop(_, _, _, _, _, _, _)
SeeLoop(to, own, enemy, all_pieces, score, piece_on_square, enemy_turn) ==
    LET r == PopFirst(to, IF enemy_turn THEN enemy ELSE own, all_pieces, 1)
    IN  IF ~r.found THEN score
        ELSE IF enemy_turn
        THEN SeeLoop(to, own, r.sets, r.all_pieces,
                     score - value(piece_on_square), r.piece, FALSE)
        ELSE SeeLoop(to, r.sets, enemy, r.all_pieces,
                     score + value(piece_on_square), r.piece, TRUE)

SeeStart(b, m, kings) ==
    SeeLoop(move_to(m), kings[1], kings[2],
            (b.white_pieces \cup b.black_pieces) \ {move_from(m)},
            capture_value(m), move_piece(m), TRUE)

static_exchange_score(b, m) ==
    IF ~is_capture(m) THEN 0
    ELSE SeeStart(b, m,
            SeeDropKings(
                SeeAttackers(b, move_to(m), own_pieces_of(b) \ {move_from(m)},
                             b.side_to_not_move),
                SeeAttackers(b, move_to(m), enemy_pieces_of(b), b.side_to_move)))

----------------------------------------------------------------------------
(* Driver of the static exchange evaluation: positions in which an attacker *)
(* stands behind another attacker of the same square, after at most one     *)
(* move                                                                     *)

\* a rook behind a queen, two rooks on one file, a queen behind a rook
FenRookBehindQueen ==
    <<"3", "r", "3", "k", "/", "3", "q", "4", "/", "8", "/", "3", "p", "4", "/",
      "4", "P", "3", "/", "8", "/", "8", "/", "3", "R", "K", "3", " ", "w", " ",
      "-", " ", "-", " ", "0", " ", "1">>

FenDoubledRooks ==
    <<"3", "r", "3", "k", "/", "8", "/", "4", "p", "3", "/", "3", "p", "4", "/",
      "4", "P", "3", "/", "8", "/", "3", "R", "4", "/", "3", "R", "K", "3", " ",
      "w", " ", "-", " ", "-", " ", "0", " ", "1">>

FenQueenBehindRook ==
    <<"3", "q", "3", "k", "/", "3", "r", "4", "/", "8", "/", "3", "p", "4", "/",
      "4", "P", "3", "/", "8", "/", "8", "/", "3", "R", "K", "3", " ", "w", " ",
      "-", " ", "-", " ", "0", " ", "1">>

SeeFens == {FenRookBehindQueen, FenDoubledRooks, FenQueenBehindRook}

\* the moves played before the evaluation
MaxSeeOps == 1

InitSee ==
    /\ \E t \in SeeFens :
        /\ fen = t
        /\ parsed = parse_fen(t)
        /\ board = parsed.board
    /\ NoEngine
    /\ last = NoOp
    /\ saved = board
    /\ ops = 0

SeePush ==
    /\ ops < MaxSeeOps
    /\ \E m \in Range(legal_moves(board)) :
            /\ board' = push(board, m)
            /\ last' = [op |-> "push", uci |-> to_uci_string(m), ok |-> TRUE,
                        undoes_push |-> FALSE]
    /\ saved' = board
    /\ ops' = ops + 1
    /\ out' = [op |-> "none"]
    /\ UNCHANGED <<fen, parsed, tt, search, stored, positions>>

SeeScore ==
    /\ \E m \in Range(legal_moves(board)) :
            out' = [op |-> "static_exchange_score", move |-> m,
                    score |-> static_exchange_score(board, m)]
    /\ UNCHANGED <<board, last, saved, ops, fen, parsed, tt, search, stored,
                   positions>>

NextSee == SeePush \/ SeeScore

SpecSee == InitSee /\ [][NextSee]_vars

----------------------------------------------------------------------------
(* The exchange on a square                                                 *)

\* the attackers of one side that can capture on the square now
CanCapture(to, sets, all_pieces) ==
    {x \in (1 .. Len(SeeKinds)) \X Squares :
        /\ x[2] \in sets[x[1]]
        /\ RayFree(x[2], to, all_pieces, SeeMask(to, SeeKinds[x[1]].ray))}

\* the least valuable of them
LeastValuable(cands) ==
    CHOOSE x \in cands :
        \A y \in cands : x[1] < y[1] \/ (x[1] = y[1] /\ x[2] <= y[2])

\* the material the mover's side gains in the captures that follow, the
\* sides alternating and only the capturing piece leaving the board
RECURSIVE ExchangeBalance(_, _, _, _, _, _)
ExchangeBalance(to, own, enemy, all_pieces, piece_on_square, enemy_turn) ==
    LET cands == CanCapture(to, IF enemy_turn THEN enemy ELSE own, all_pieces)
    IN  IF cands = {} THEN 0
        ELSE LET x == LeastValuable(cands)
             IN  IF enemy_turn
                 THEN ExchangeBalance(to, own, [enemy EXCEPT ![x[1]] = @ \ {x[2]}],
                                      all_pieces \ {x[2]}, SeeKinds[x[1]].piece, FALSE)
                      - value(piece_on_square)
                 ELSE ExchangeBalance(to, [own EXCEPT ![x[1]] = @ \ {x[2]}], enemy,
                                      all_pieces \ {x[2]}, SeeKinds[x[1]].piece, TRUE)
                      + value(piece_on_square)

ExchangeOf(b, m, kings) ==
    capture_value(m)
    + ExchangeBalance(move_to(m), kings[1], kings[2],
                      (b.white_pieces \cup b.black_pieces) \ {move_from(m)},
                      move_piece(m), TRUE)

ExchangeScore(b, m) ==
    IF ~is_capture(m) THEN 0
    ELSE ExchangeOf(b, m,
            SeeDropKings(
                SeeAttackers(b, move_to(m), own_pieces_of(b) \ {move_from(m)},
                             b.side_to_not_move),
                SeeAttackers(b, move_to(m), enemy_pieces_of(b), b.side_to_move)))

\* C17: static_exchange_score of a move is 0 for a non-capture and otherwise
\* the material balance of the capture sequence on the destination square,
\* the sides alternating and every capture made by the least valuable
\* remaining attacker with a free ray, so that a slider standing behind
\* another attacker joins the exchange once the pieces in front are used.
SeeIsExchangeBalance ==
    out.op = "static_exchange_score" => out.score = ExchangeScore(board, out.move)

----------------------------------------------------------------------------
(* Move ordering in Search::_search (search.rs)                             *)
(*                                                                          *)
(* A Vec index i of the source is the sequence index i + 1 here.            *)

\* moves.iter().skip(sort_from).position(|&m| m == x): the index of the
\* first hit counted from the first move that was not skipped
SkipPosition(moves, sort_from, x) ==
    LET hits == {i \in 0 .. Len(moves) - sort_from - 1 : moves[sort_from + i + 1] = x}
    IN  IF hits = {} THEN NoneOpt ELSE Some(Min(hits))

\* moves.swap(i, j)
Swap(moves, i, j) ==
    [moves EXCEPT ![i + 1] = moves[j + 1], ![j + 1] = moves[i + 1]]

\* if let Some(h) = position { if h != sort_from { swap; sort_from += 1 } }
BringForward(st, wanted) ==
    LET h == IF wanted.tag = "Some"
             THEN SkipPosition(st.moves, st.sort_from, wanted.value)
             ELSE NoneOpt
    IN  IF h.tag = "Some" /\ h.value # st.sort_from
        THEN [moves |-> Swap(st.moves, st.sort_from, h.value),
              sort_from |-> st.sort_from + 1]
        ELSE st

\* the key of sort_by_key: (-capture_value, value of the moving piece)
KeyLess(a, b) ==
    \/ -capture_value(a) < -capture_value(b)
    \/ /\ capture_value(a) = capture_value(b)
       /\ value(move_piece(a)) < value(move_piece(b))

\* slice::sort_by_key is stable: moves of equal key keep their order
RECURSIVE StableSort(_)
StableSort(q) ==
    IF q = <<>> THEN <<>>
    ELSE LET i == Min({j \in 1 .. Len(q) : \A k \in 1 .. Len(q) : ~KeyLess(q[k], q[j])})
         IN  <<q[i]>> \o StableSort([j \in 1 .. Len(q) - 1 |->
                                        IF j < i THEN q[j] ELSE q[j + 1]])

\* moves[sort_from..].sort_by_key(..)
SortTail(st) ==
    SubSeq(st.moves, 1, st.sort_from)
    \o StableSort(SubSeq(st.moves, st.sort_from + 1, Len(st.moves)))

\* if pv_idx < self.last_pv.len() { prev_pv_move = self.last_pv[pv_idx] .. }
PrevPvMove(last_pv, pv_idx) ==
    IF pv_idx < Len(last_pv) THEN Some(last_pv[pv_idx + 1]) ELSE NoneOpt

order_moves(moves, hash_move, prev_pv_move) ==
    SortTail(BringForward(BringForward([moves |-> moves, sort_from |-> 0],
                                       hash_move),
                          prev_pv_move))

----------------------------------------------------------------------------
(* Driver of the move ordering: a node of the search whose position has a   *)
(* table entry from an earlier put and a principal variation from the last  *)
(* iteration; ordering the moves of the node ends the run                   *)

\* captures of a rook by a pawn and by a knight and of a pawn by a pawn,
\* quiet moves of king, knight and pawn
FenCaptures ==
    <<"k", "7", "/", "8", "/", "8", "/", "3", "r", "1", "p", "2", "/",
      "4", "P", "3", "/", "2", "N", "5", "/", "8", "/", "K", "7", " ", "w", " ",
      "-", " ", "-", " ", "0", " ", "1">>

OrderFens == {FenCaptures}

\* the plies of the last principal variation
MaxPv == 1

InitOrder ==
    /\ \E t \in OrderFens :
        /\ fen = t
        /\ parsed = parse_fen(t)
        /\ board = parsed.board
    /\ last = NoOp
    /\ saved = board
    /\ ops = 0
    /\ tt = TranspositionTable_new(0)
    /\ search = [max_depth |-> 1, last_pv |-> <<>>]
    /\ out = [op |-> "none"]
    /\ stored = <<>>
    /\ positions = {}

\* an earlier search stored a cutoff or an exact score with its move
OrderStore ==
    /\ out.op = "none"
    /\ tt_get_move(tt, board) = NoneOpt
    /\ \E m \in Range(legal_moves(board)) :
        \E score \in {TTBeta(0, m), TTPv(0, m)} :
            tt' = tt_put(tt, board, 1, score)
    /\ UNCHANGED <<board, last, saved, ops, fen, parsed, search, out, stored,
                   positions>>

\* the last iteration left a principal variation
OrderLastPv ==
    /\ out.op = "none"
    /\ Len(search.last_pv) < MaxPv
    /\ \E m \in Range(legal_moves(board)) :
            search' = [search EXCEPT !.last_pv = Append(@, m)]
    /\ UNCHANGED <<board, last, saved, ops, fen, parsed, tt, out, stored,
                   positions>>

OrderNodeOf(moves, hash_move, prev_pv_move) ==
    out' = [op |-> "order", generated |-> moves, hash_move |-> hash_move,
            prev_pv_move |-> prev_pv_move,
            moves |-> order_moves(moves, hash_move, prev_pv_move)]

OrderNode ==
    /\ \E pv_idx \in 0 .. MaxPv :
            OrderNodeOf(legal_moves(board), tt_get_move(tt, board),
                        PrevPvMove(search.last_pv, pv_idx))
    /\ UNCHANGED <<board, last, saved, ops, fen, parsed, tt, search, stored,
                   positions>>

NextOrder == OrderStore \/ OrderLastPv \/ OrderNode

SpecOrder == InitOrder /\ [][NextOrder]_vars

----------------------------------------------------------------------------
(* Hash move and PV move first                                              *)

IsLegalHere(wanted) ==
    wanted.tag = "Some" /\ wanted.value \in Range(out.generated)

\* the moves the node tries first: the hash move, then the PV move
FrontMoves ==
    (IF IsLegalHere(out.hash_move) THEN <<out.hash_move.value>> ELSE <<>>)
    \o (IF IsLegalHere(out.prev_pv_move)
           /\ ~(IsLegalHere(out.hash_move)
                /\ out.hash_move.value = out.prev_pv_move.value)
        THEN <<out.prev_pv_move.value>> ELSE <<>>)

\* C18: at a node the first move tried is the move the table holds for the
\* position when it is legal, also when the generator listed it first; the
\* next is the previous iteration's PV move of this ply when it is legal
\* and not the hash move; the ordered list holds the generated moves.
HashMoveThenPvMove ==
    out.op = "order" =>
        /\ SubSeq(out.moves, 1, Len(FrontMoves)) = FrontMoves
        /\ Len(out.moves) = Len(out.generated)
        /\ Range(out.moves) = Range(out.generated)

----------------------------------------------------------------------------
(* MVV-LVA                                                                  *)

\* the moves of q that are not in the set, in the order of q
RECURSIVE Without(_, _)
Without(q, set) ==
    IF q = <<>> THEN <<>>
    ELSE IF Head(q) \in set THEN Without(Tail(q), set)
    ELSE <<Head(q)>> \o Without(Tail(q), set)

RestMoves == Without(out.moves, Range(FrontMoves))

QuietMoves(q) == Without(q, {m \in Range(q) : is_capture(m)})

\* C19: among the moves after the hash move and the PV move every capture
\* comes before every non-capture, captures stand in descending order of the
\* captured piece's value and, for equal victims, ascending order of the
\* capturing piece's value, and the non-captures stand in the order in
\* which legal_moves generated them.
MvvLvaKeepsQuietOrder ==
    out.op = "order" =>
        /\ \A i \in 1 .. Len(RestMoves) - 1 :
            LET a == RestMoves[i]
                b == RestMoves[i + 1]
            IN  /\ is_capture(b) => is_capture(a)
                /\ is_capture(b) => capture_value(a) >= capture_value(b)
                /\ is_capture(b) /\ capture_value(a) = capture_value(b)
                        => value(move_piece(a)) <= value(move_piece(b))
        /\ QuietMoves(RestMoves)
                = QuietMoves(Without(out.generated, Range(FrontMoves)))

----------------------------------------------------------------------------
(* Search (chessica-engine/src/search.rs)                                   *)
(*                                                                          *)
(* The record st carries what the recursion works on: the working board,    *)
(* the table, pv_table and last_pv of the Search object, and four records   *)
(* kept for the properties: pushes and pops counted, whether every call so  *)
(* far returned with the board it was entered with, the score of every call *)
(* entered with no legal move, the score of every call entered at a drawn   *)
(* position, the kinds of return taken, the moves pushed from the root to   *)
(* the node at hand, every such path in the order of the pushes, and every  *)
(* call with its path, board, window and score.  A call                     *)
(* returns [score, st].  The Search is the one Search::new builds: seed 0,  *)
(* no perturbation.                                                         *)

I16_MAX == 32767

\* the score of being checkmated
MATED == -30000

\* PstEvaluator::score: the running sum seen from the side to move
get_pst_negamax_score(b) ==
    IF b.side_to_move = "White" THEN b.pst_eval ELSE -b.pst_eval

is_passed_pawn(b, square) == square \in b.passed_pawns

\* _eval with the values of is_in_check() and legal_moves() of the board
eval(b, checked, moves) ==
    IF checked /\ moves = <<>> THEN MATED
    ELSE IF is_draw_by_threefold_repetition(b) THEN 0
    ELSE IF is_draw_by_fifty_move_rule(b) THEN 0
    ELSE get_pst_negamax_score(b)

\* the sort key of a move in quiescence
QSortKey(b, m) ==
    IF is_capture(m) THEN static_exchange_score(b, m)
    ELSE IF is_passed_pawn(b, move_from(m)) THEN 1
    ELSE 0

\* .sorted_by_key(|&t| -t.1): stable, greatest key first; q holds <<move, key>>
RECURSIVE SortedByKey(_)
SortedByKey(q) ==
    IF q = <<>> THEN <<>>
    ELSE LET i == Min({j \in 1 .. Len(q) : \A k \in 1 .. Len(q) : q[k][2] <= q[j][2]})
         IN  <<q[i][1]>> \o SortedByKey(SubSeq(q, 1, i - 1) \o SubSeq(q, i + 1, Len(q)))

\* .filter(|&t| t.1 > 0)
RECURSIVE FilterPositive(_)
FilterPositive(q) ==
    IF q = <<>> THEN <<>>
    ELSE IF Head(q)[2] > 0 THEN <<Head(q)>> \o FilterPositive(Tail(q))
    ELSE FilterPositive(Tail(q))

\* the moves quiescence searches: all of them in check, else the winning
\* captures and the passed-pawn moves
QMoves(b, moves, checked) ==
    IF checked THEN moves
    ELSE SortedByKey(FilterPositive(
            [i \in 1 .. Len(moves) |-> <<moves[i], QSortKey(b, moves[i])>>]))

\* board.push(&move_) on the working board
Pushed(st, m) ==
    [st EXCEPT !.board = push(@, m), !.pushes = @ + 1,
               !.path = Append(@, m), !.visits = Append(@, Append(st.path, m))]

\* a pop that takes the move back and leaves the half move clock of the child
PopAfterKeepsClock(c) ==
    [score |-> NegScore(c.score),
     st |-> [c.st EXCEPT !.board = [pop(@) EXCEPT !.half_move_clock =
                                                     c.st.board.half_move_clock],
                         !.pops = @ + 1,
                         !.path = SubSeq(@, 1, Len(@) - 1)]]

\* let score = -child; board.pop();
PopAfter(c) ==
    [score |-> NegScore(c.score),
     st |-> [c.st EXCEPT !.board = pop(@), !.pops = @ + 1,
                         !.path = SubSeq(@, 1, Len(@) - 1)]]

\* the position and the length of the move stack
SameWorkingBoard(a, b) ==
    /\ Len(a.move_stack) = Len(b.move_stack)
    /\ \A f \in {"white_pieces", "black_pieces", "pawns", "knights", "bishops",
                 "rooks", "queens", "kings", "side_to_move", "side_to_not_move",
                 "castling_rights", "ep_square", "half_move_clock",
                 "full_move_number", "z_hash"} : a[f] = b[f]

\* a call returns: what the properties record about it
Leave(fn, entry, checked, moves, alpha, beta, r) ==
    [score |-> r.score,
     st |-> [r.st EXCEPT
                !.balanced = @ /\ SameWorkingBoard(entry, r.st.board),
                !.returns = @ \cup {IF moves = <<>> THEN "terminal"
                                    ELSE IF r.score.kind = "LowerBound" THEN "cutoff"
                                    ELSE "normal"},
                !.terminals = IF moves # <<>> THEN @
                              ELSE @ \cup {[fn |-> fn, in_check |-> checked,
                                            alpha |-> alpha, beta |-> beta,
                                            stand_pat |-> eval(entry, checked, moves),
                                            score |-> r.score]},
                !.nodes = @ \cup {[fn |-> fn, path |-> r.st.path, board |-> entry,
                                    alpha |-> alpha, beta |-> beta, score |-> r.score]},
                !.draws = IF (checked /\ moves = <<>>)
                             \/ ~(is_draw_by_threefold_repetition(entry)
                                  \/ is_draw_by_fifty_move_rule(entry))
                          THEN @
                          ELSE @ \cup {[fn |-> fn, alpha |-> alpha, beta |-> beta,
                                        score |-> r.score]}]]

RECURSIVE _qsearch(_, _, _)
RECURSIVE QLoop(_, _, _, _, _, _)

\* match score { LowerBound / UpperBound / Exact }; if alpha >= beta { .. }
QAfter(moves, i, alpha, beta, is_pv, c) ==
    CASE c.score.kind = "LowerBound" ->
            [score |-> LowerBound(c.score.score), st |-> c.st]
      [] c.score.kind = "Exact" /\ c.score.score > alpha /\ c.score.score >= beta ->
            [score |-> LowerBound(c.score.score), st |-> c.st]
      [] c.score.kind = "Exact" /\ c.score.score > alpha /\ c.score.score < beta ->
            QLoop(c.st, moves, i + 1, c.score.score, beta, TRUE)
      [] OTHER ->
            IF alpha >= beta THEN [score |-> LowerBound(alpha), st |-> c.st]
            ELSE QLoop(c.st, moves, i + 1, alpha, beta, is_pv)

QLoop(st, moves, i, alpha, beta, is_pv) ==
    IF i > Len(moves)
    THEN [score |-> IF is_pv THEN Exact(alpha) ELSE UpperBound(alpha), st |-> st]
    ELSE QAfter(moves, i, alpha, beta, is_pv,
                PopAfter(_qsearch(Pushed(st, moves[i]), -beta, -alpha)))

\* the stand-pat score used in check as well
QStandPatInCheck(st, alpha, beta, checked, moves, stand_pat_score) ==
    IF stand_pat_score > alpha /\ stand_pat_score >= beta
    THEN [score |-> LowerBound(stand_pat_score), st |-> st]
    ELSE IF moves = <<>>
    THEN [score |-> IF ~checked THEN Exact(0) ELSE Exact(stand_pat_score), st |-> st]
    ELSE QLoop(st, QMoves(st.board, moves, checked), 1,
               IF stand_pat_score > alpha THEN stand_pat_score ELSE alpha,
               beta, stand_pat_score > alpha)

\* from the stand-pat test on
QStandPat(st, alpha, beta, checked, moves, stand_pat_score) ==
    IF ~checked /\ stand_pat_score > alpha /\ stand_pat_score >= beta
    THEN [score |-> LowerBound(stand_pat_score), st |-> st]
    ELSE IF moves = <<>>
    THEN [score |-> IF ~checked THEN Exact(0) ELSE Exact(stand_pat_score), st |-> st]
    ELSE QLoop(st, QMoves(st.board, moves, checked), 1,
               IF ~checked /\ stand_pat_score > alpha THEN stand_pat_score ELSE alpha,
               beta, ~checked /\ stand_pat_score > alpha)

QEnter(st, alpha, beta, checked, moves) ==
    Leave("_qsearch", st.board, checked, moves, alpha, beta,
          QStandPat(st, alpha, beta, checked, moves, eval(st.board, checked, moves)))

_qsearch(st, alpha, beta) ==
    QEnter(st, alpha, beta, is_in_check(st.board), legal_moves(st.board))

\* the element of a set of one (its elements are values: what is computed
\* for one is computed once)
Only(S) == CHOOSE x \in S : TRUE

RECURSIVE _search(_, _, _, _, _)

\* tt.put(board, depth as u8, score) and the Score returned with it
PutAndReturn(st, depth, tt_score, score) ==
    [score |-> score,
     st |-> [st EXCEPT !.tt = tt_put(@, st.board, depth % U8, tt_score)]]

\* pv_table[pv_idx + 1], the line of the child, when there is such a row
PvTail(st, pv_idx) ==
    IF pv_idx + 1 < Len(st.pv_table) THEN st.pv_table[pv_idx + 2] ELSE <<>>

\* the properties record the line of the child that has just become the best
NoteTail(st, pv_idx) == [st EXCEPT !.tails[pv_idx + 1] = PvTail(st, pv_idx)]

RECURSIVE SLoop(_, _, _, _, _, _, _, _)
SAfter(moves, i, depth, pv_idx, alpha, beta, pv_move, c) ==
    CASE c.score.kind = "LowerBound" ->
            PutAndReturn(c.st, depth, TTBeta(c.score.score, moves[i]),
                         LowerBound(c.score.score))
      [] c.score.kind = "Exact" /\ c.score.score > alpha /\ c.score.score >= beta ->
            PutAndReturn(c.st, depth, TTBeta(beta, moves[i]), LowerBound(beta))
      [] c.score.kind = "Exact" /\ c.score.score > alpha /\ c.score.score < beta ->
            SLoop(NoteTail(c.st, pv_idx), moves, i + 1, depth, pv_idx,
                  c.score.score, beta, Some(moves[i]))
      [] OTHER ->
            IF alpha >= beta
            THEN PutAndReturn(c.st, depth, TTBeta(beta, moves[i]), LowerBound(beta))
            ELSE SLoop(c.st, moves, i + 1, depth, pv_idx, alpha, beta, pv_move)

\* after the loop: the principal variation of this ply and the table entry
SFinish(st, depth, pv_idx, alpha, pv_move) ==
    IF pv_move.tag = "Some"
    THEN PutAndReturn(
            [st EXCEPT !.pv_table[pv_idx + 1] =
                            <<pv_move.value>> \o PvTail(st, pv_idx),
                       !.pvs = @ \cup {[board |-> st.board,
                                         move |-> pv_move.value,
                                         child_pv |-> st.tails[pv_idx + 1],
                                         pv |-> <<pv_move.value>>
                                                \o PvTail(st, pv_idx)]}],
            depth, TTPv(alpha, pv_move.value), Exact(alpha))
    ELSE PutAndReturn(st, depth, TTAlpha(alpha), UpperBound(alpha))

SLoop(st, moves, i, depth, pv_idx, alpha, beta, pv_move) ==
    IF i > Len(moves) THEN SFinish(st, depth, pv_idx, alpha, pv_move)
    ELSE SAfter(moves, i, depth, pv_idx, alpha, beta, pv_move,
                PopAfter(_search(Pushed(st, moves[i]), depth - 1, pv_idx + 1,
                                 -beta, -alpha)))

\* the transposition-table hit
SHit(st, pv_idx, tt_score, pv_move) ==
    [score |-> tt_score,
     st |-> [st EXCEPT !.pv_table[pv_idx + 1] =
                            IF pv_move.tag = "Some" THEN <<pv_move.value>> ELSE <<>>,
                       !.returns = @ \cup {"tt_hit"}]]

SNode(st, depth, pv_idx, alpha, beta, checked, moves, hit) ==
    IF hit.tag = "Some"
    THEN SHit(st, pv_idx, hit.value, tt_get_pv_move(st.tt, st.board))
    ELSE IF moves = <<>>
    THEN [score |-> Exact(IF checked THEN MATED ELSE 0),
          st |-> [st EXCEPT !.pv_table[pv_idx + 1] = <<>>]]
    ELSE SLoop(st,
               order_moves(moves, tt_get_move(st.tt, st.board),
                           PrevPvMove(st.last_pv, pv_idx)),
               1, depth, pv_idx, alpha, beta, NoneOpt)

SEnter(st, depth, pv_idx, alpha, beta, checked, moves) ==
    Leave("_search", st.board, checked, moves, alpha, beta,
          SNode(st, depth, pv_idx, alpha, beta, checked, moves,
                tt_get(st.tt, st.board, depth % U8, alpha, beta)))

_search(st, depth, pv_idx, alpha, beta) ==
    IF depth = 0 THEN _qsearch(st, alpha, beta)
    ELSE SEnter(st, depth, pv_idx, alpha, beta, is_in_check(st.board),
                legal_moves(st.board))

\* self.last_pv = self.pv_table[0].clone(); every pv_table[i].truncate(0)
EndIteration(r) ==
    [r.st EXCEPT !.last_pv = r.st.pv_table[1],
                 !.pv_table = [i \in DOMAIN @ |-> <<>>]]

\* for i in 0..self.max_depth { .. }, from iteration i on
RECURSIVE Iterations(_, _, _)
Iterations(st, i, max_depth) ==
    IF i >= max_depth THEN st
    ELSE Iterations(EndIteration(_search(st, i + 1, 0, -I16_MAX, I16_MAX)),
                    i + 1, max_depth)

\* Search::new(max_depth) and the clone of the caller's board
SearchStart(max_depth, last_pv, b, table) ==
    [board |-> b, tt |-> table, last_pv |-> last_pv,
     pv_table |-> [i \in 1 .. max_depth |-> <<>>],
     pushes |-> 0, pops |-> 0, balanced |-> TRUE, terminals |-> {},
     returns |-> {}, draws |-> {},
     path |-> <<>>, visits |-> <<>>, nodes |-> {},
     tails |-> [i \in 1 .. max_depth |-> <<>>], pvs |-> {}]

\* self.last_pv.first().map(|&m| m)
First(q) == IF q = <<>> THEN NoneOpt ELSE Some(q[1])

\* Search::search: the state the iterations end in
Search_search(max_depth, last_pv, b, table) ==
    Iterations(SearchStart(max_depth, last_pv, b, table), 0, max_depth)

----------------------------------------------------------------------------
(* Driver of the search: a game from a small endgame in which the engine    *)
(* searches the position on the board with one table kept throughout, and   *)
(* moves are played                                                         *)

\* rook endgame with a mate and a stalemate one move away; pawn endgame
FenRookMate ==
    <<"k", "1", "K", "5", "/", "8", "/", "8", "/", "8", "/", "8", "/", "8", "/",
      "8", "/", "7", "R", " ", "w", " ", "-", " ", "-", " ", "0", " ", "1">>

FenPawnEnding ==
    <<"k", "7", "/", "P", "7", "/", "2", "K", "5", "/", "8", "/", "8", "/", "8", "/",
      "8", "/", "8", " ", "w", " ", "-", " ", "-", " ", "0", " ", "1">>

SearchFens == {FenRookMate, FenPawnEnding}

\* the greatest max_depth of a Search
MaxDepth == 2

\* the searches and moves of a game
MaxSearchOps == 2

InitSearch ==
    /\ \E t \in SearchFens :
        /\ fen = t
        /\ parsed = parse_fen(t)
        /\ board = parsed.board
    /\ last = NoOp
    /\ saved = board
    /\ ops = 0
    /\ tt = TranspositionTable_new(0)
    /\ search = [max_depth |-> 0, last_pv |-> <<>>]
    /\ out = [op |-> "none"]
    /\ stored = <<>>
    /\ positions = {}

\* search.search(&board, &mut tt), st the state the iterations ended in
SearchDone(max_depth, st) ==
    /\ tt' = st.tt
    /\ search' = [max_depth |-> max_depth, last_pv |-> st.last_pv]
    /\ out' = [op |-> "search", max_depth |-> max_depth,
               result |-> First(st.last_pv), working |-> st.board,
               pushes |-> st.pushes, pops |-> st.pops, balanced |-> st.balanced,
               terminals |-> st.terminals, returns |-> st.returns,
               draws |-> st.draws, pvs |-> st.pvs]

\* a search by a new Search, or by the one of the last search again
SearchRun ==
    /\ ops < MaxSearchOps
    /\ \E max_depth \in 0 .. MaxDepth :
        \E last_pv \in {<<>>} \cup (IF search.max_depth = max_depth
                                   THEN {search.last_pv} ELSE {}) :
            SearchDone(max_depth, Search_search(max_depth, last_pv, board, tt))
    /\ ops' = ops + 1
    /\ UNCHANGED <<board, last, saved, fen, parsed, stored, positions>>

SearchPlay ==
    /\ ops < MaxSearchOps
    /\ \E m \in Range(legal_moves(board)) :
            /\ board' = push(board, m)
            /\ last' = [op |-> "push", uci |-> to_uci_string(m), ok |-> TRUE,
                        undoes_push |-> FALSE]
    /\ saved' = board
    /\ ops' = ops + 1
    /\ out' = [op |-> "none"]
    /\ UNCHANGED <<fen, parsed, tt, search, stored, positions>>

NextSearch == SearchRun \/ SearchPlay

SpecSearch == InitSearch /\ [][NextSearch]_vars

----------------------------------------------------------------------------
(* The move returned                                                        *)

ReturnsLegalMove(moves) ==
    /\ moves # <<>> => out.result.tag = "Some" /\ out.result.value \in Range(moves)
    /\ out.result.tag = "None" => moves = <<>>

\* C15: search returns a move of legal_moves() whenever the position has a
\* legal move and None only when it has none, for every max_depth and every
\* content of the table left by earlier searches.
SearchReturnsLegalMove ==
    out.op = "search" => ReturnsLegalMove(legal_moves(board))

----------------------------------------------------------------------------
(* Pushes and pops of the search                                            *)

\* C16: search leaves the caller's board as it is; on the working clone
\* every push is followed by one pop on every return path of _search and
\* _qsearch, so each call returns with the move stack length and the
\* position it was entered with.
SearchRestoresBoard ==
    out.op = "search" =>
        /\ out.balanced
        /\ out.pushes = out.pops
        /\ SameWorkingBoard(board, out.working)
        /\ last.op = "init" => board = parsed.board

\* a search that took every kind of return: completion, beta cutoff,
\* table hit and terminal node
SearchRestoresBoardWitness ==
    /\ out.op = "search"
    /\ out.pushes > 0
    /\ out.returns = {"normal", "cutoff", "tt_hit", "terminal"}

----------------------------------------------------------------------------
(* Terminal nodes                                                           *)

\* C20: a node with no legal move is scored Exact(-30000) when the side to
\* move is in check and Exact(0) when it is not, in _search and in
\* _qsearch and for every window, whatever the static evaluation.
TerminalNodesExact ==
    out.op = "search" =>
        \A t \in out.terminals :
            t.score = Exact(IF t.in_check THEN MATED ELSE 0)

----------------------------------------------------------------------------
(* Drawn positions in the search                                            *)

\* White to move with the half move clock at 99: every quiet move reaches a
\* position drawn by the fifty-move rule, in which Black can take the rook
FenFiftyRooks ==
    <<"k", "7", "/", "8", "/", "8", "/", "8", "/", "8", "/", "8", "/", "8", "/",
      "K", "2", "R", "3", "r", " ", "w", " ", "-", " ", "-", " ",
      "9", "9", " ", "6", "0">>

\* the same with a knight for White's rook
FenFiftyKnight ==
    <<"k", "7", "/", "8", "/", "8", "/", "8", "/", "8", "/", "8", "/", "8", "/",
      "K", "2", "N", "3", "r", " ", "w", " ", "-", " ", "-", " ",
      "9", "9", " ", "6", "0">>

DrawFens == {FenFiftyRooks, FenFiftyKnight}

InitDraw ==
    /\ \E t \in DrawFens :
        /\ fen = t
        /\ parsed = parse_fen(t)
        /\ board = parsed.board
    /\ last = NoOp
    /\ saved = board
    /\ ops = 0
    /\ tt = TranspositionTable_new(0)
    /\ search = [max_depth |-> 0, last_pv |-> <<>>]
    /\ out = [op |-> "none"]
    /\ stored = <<>>
    /\ positions = {}

SpecDraw == InitDraw /\ [][NextSearch]_vars

\* C21: every node of the search whose position is drawn by threefold
\* repetition or by the fifty-move rule, and is not checkmate, is scored 0,
\* in _search as in _qsearch, and not by a score of the moves below it;
\* a bound returned for it is a bound of 0.
ScoresAs(score, v) ==
    CASE score.kind = "Exact" -> score.score = v
      [] score.kind = "LowerBound" -> score.score <= v
      [] score.kind = "UpperBound" -> score.score >= v

DrawnNodesScoreZero ==
    out.op = "search" => \A d \in out.draws : ScoresAs(d.score, 0)

----------------------------------------------------------------------------
(* The moves of quiescence                                                  *)

\* a passed pawn on each side and a promotion that gives check
FenPassers ==
    <<"7", "k", "/", "P", "7", "/", "8", "/", "8", "/", "8", "/", "8", "/",
      "5", "p", "n", "1", "/", "K", "7", " ",
      "w", " ", "-", " ", "-", " ", "0", " ", "1">>

QuiesceFens == {FenCaptures, FenPassers}

InitQuiesce ==
    /\ \E t \in QuiesceFens :
        /\ fen = t
        /\ parsed = parse_fen(t)
        /\ board = parsed.board
    /\ last = NoOp
    /\ saved = board
    /\ ops = 0
    /\ tt = TranspositionTable_new(0)
    /\ search = [max_depth |-> 0, last_pv |-> <<>>]
    /\ out = [op |-> "none"]
    /\ stored = <<>>
    /\ positions = {}

\* a search of depth 1: every child of the root is a node of _qsearch
QuiesceDone(st) ==
    /\ tt' = st.tt
    /\ search' = [max_depth |-> 1, last_pv |-> st.last_pv]
    /\ out' = [op |-> "quiesce", visits |-> st.visits,
               nodes |-> {n \in st.nodes : n.fn = "_qsearch"}]

QuiesceRun ==
    /\ ops < MaxSearchOps
    /\ out.op = "none"
    /\ QuiesceDone(Search_search(1, <<>>, board, tt))
    /\ ops' = ops + 1
    /\ UNCHANGED <<board, last, saved, fen, parsed, stored, positions>>

NextQuiesce == QuiesceRun \/ SearchPlay

SpecQuiesce == InitQuiesce /\ [][NextQuiesce]_vars

\* the moves pushed at the node of a path, in the order of the pushes
ChildOf(v, path) ==
    Len(v) = Len(path) + 1 /\ SubSeq(v, 1, Len(path)) = path

RECURSIVE Tried(_, _)
Tried(visits, path) ==
    IF visits = <<>> THEN <<>>
    ELSE IF ChildOf(Head(visits), path)
    THEN <<Head(visits)[Len(path) + 1]>> \o Tried(Tail(visits), path)
    ELSE Tried(Tail(visits), path)

IsPrefix(p, q) == Len(p) <= Len(q) /\ SubSeq(q, 1, Len(p)) = p

\* a pawn of the side to move with no enemy pawn in its zone
OwnPassedPawn(b, square) ==
    /\ square \in b.pawns \cap get_pieces(b, b.side_to_move)
    /\ b.pawns \cap get_pieces(b, b.side_to_not_move)
        \cap (IF b.side_to_move = "White" THEN WHITE_PASSED_PAWN_ZONE(square)
              ELSE BLACK_PASSED_PAWN_ZONE(square)) = {}

\* the static exchange score of a capture, 1 for a passed pawn's quiet move
Interest(b, m) ==
    IF is_capture(m) THEN static_exchange_score(b, m)
    ELSE IF OwnPassedPawn(b, move_from(m)) THEN 1
    ELSE 0

\* the score of a node in check is taken from a move it searched
FromChild(n, nodes, tried) ==
    \E c \in nodes :
        /\ \E i \in 1 .. Len(tried) : c.path = Append(n.path, tried[i])
        /\ NegScore(c.score).score = n.score.score
        /\ c.score.kind = "Exact" \/ n.score.kind = "LowerBound"

QNodeAsClaimed(n, checked, moves, tried, stand_pat) ==
    IF ~checked /\ stand_pat > n.alpha /\ stand_pat >= n.beta
    THEN tried = <<>> /\ n.score = LowerBound(stand_pat)
    ELSE IF checked
    THEN /\ IsPrefix(tried, moves)
         /\ moves # <<>> => tried # <<>>
         /\ n.score.kind # "LowerBound" => tried = moves
         /\ n.score.kind = "UpperBound" => n.score.score = n.alpha
    ELSE /\ Range(tried) \subseteq Range(moves)
         /\ \A i \in 1 .. Len(tried) :
                /\ Interest(n.board, tried[i]) > 0
                /\ \A j \in 1 .. Len(tried) : i < j =>
                        /\ tried[i] # tried[j]
                        /\ Interest(n.board, tried[i]) >= Interest(n.board, tried[j])
                /\ \A m \in Range(moves) \ Range(tried) :
                        Interest(n.board, m) <= Interest(n.board, tried[i])
         /\ n.score.kind # "LowerBound" =>
                \A m \in Range(moves) : Interest(n.board, m) > 0 => m \in Range(tried)
         /\ n.score.kind = "UpperBound" => n.score.score = n.alpha /\ stand_pat <= n.alpha

QNodeChecked(n, nodes, visits, checked, moves) ==
    /\ QNodeAsClaimed(n, checked, moves, Tried(visits, n.path),
                      eval(n.board, checked, moves))
    /\ (checked /\ moves # <<>> /\ n.score.kind # "UpperBound")
            => FromChild(n, nodes, Tried(visits, n.path))

\* C22: _qsearch cuts off on and raises alpha to the stand-pat score only
\* when the side to move is not in check; in check it searches all legal
\* moves; not in check it searches the captures with static exchange score
\* > 0 and the quiet moves of own passed pawns (counted as 1), greatest
\* score first, and no other move.
QuiescenceMoves ==
    out.op = "quiesce" =>
        \A n \in out.nodes :
            QNodeChecked(n, out.nodes, out.visits, is_in_check(n.board),
                         legal_moves(n.board))

\* a node in check whose evaluation is above alpha and which tried two moves
QInCheckSeen(n, checked, moves, tried) ==
    checked /\ Len(tried) >= 2 /\ eval(n.board, checked, moves) > n.alpha

\* a node not in check that tried a capture
QCaptureSeen(n, checked, tried) ==
    ~checked /\ \E i \in 1 .. Len(tried) : is_capture(tried[i])

\* a node not in check that tried a passed pawn's quiet move
QPasserSeen(n, checked, tried) ==
    ~checked /\ \E i \in 1 .. Len(tried) : ~is_capture(tried[i])

\* a node not in check that left out a capture
QSkippedSeen(n, checked, moves, tried) ==
    ~checked /\ \E m \in Range(moves) \ Range(tried) : is_capture(m)

\* a node cut off by the stand-pat score
QStandPatSeen(n, checked, moves) ==
    ~checked /\ moves # <<>> /\ n.score = LowerBound(eval(n.board, checked, moves))

\* a search with each of these nodes
QuiescenceMovesWitness ==
    /\ out.op = "quiesce"
    /\ \E n \in out.nodes :
        QInCheckSeen(n, is_in_check(n.board), legal_moves(n.board),
                     Tried(out.visits, n.path))
    /\ \E n \in out.nodes :
        QCaptureSeen(n, is_in_check(n.board), Tried(out.visits, n.path))
    /\ \E n \in out.nodes :
        QPasserSeen(n, is_in_check(n.board), Tried(out.visits, n.path))
    /\ \E n \in out.nodes :
        QSkippedSeen(n, is_in_check(n.board), legal_moves(n.board),
                     Tried(out.visits, n.path))
    /\ \E n \in out.nodes :
        QStandPatSeen(n, is_in_check(n.board), legal_moves(n.board))

----------------------------------------------------------------------------
(* The principal variation                                                  *)

\* get_pv: self.last_pv.clone()
get_pv(s) == s.last_pv

\* the moves of a line can be pushed one after another, each legal where
\* it is pushed
RECURSIVE IsLegalLine(_, _)
IsLegalLine(b, line) ==
    \/ line = <<>>
    \/ /\ Head(line) \in Range(legal_moves(b))
       /\ IsLegalLine(push(b, Head(line)), Tail(line))

\* get_pv() after search() is a line of moves legal one after another from
\* the root position
PvIsLegalLine ==
    out.op = "search" => IsLegalLine(board, get_pv(search))

\* C23: pv_table[ply] of a node returned Exact is the best move followed by
\* the line the search of that move's child produced, also when siblings
\* searched after the best move hit the table or were terminal.
PvIsBestThenChildPv ==
    out.op = "search" =>
        \A e \in out.pvs : e.pv = <<e.move>> \o e.child_pv

\* every line an Exact node leaves in pv_table is legal from that node
ExactPvsAreLegal ==
    out.op = "search" => \A e \in out.pvs : IsLegalLine(e.board, e.pv)

----------------------------------------------------------------------------
(* Building a magic table (magic.rs, bitboard.rs)                           *)
(*                                                                          *)
(* A u64 is the set of its one bits, as a BitBoard is the set of its        *)
(* squares; the arithmetic of the hash is done on the 64 bits.              *)

\* the bits of a + b + carry from bit i on, modulo 2^64
RECURSIVE AddFrom(_, _, _, _)
AddFrom(a, b, i, carry) ==
    IF i > 63 THEN {}
    ELSE LET n == (IF i \in a THEN 1 ELSE 0) + (IF i \in b THEN 1 ELSE 0)
                  + carry
         IN  (IF n % 2 = 1 THEN {i} ELSE {})
                \cup AddFrom(a, b, i + 1, n \div 2)

\* u64::wrapping_sub: a + !b + 1
wrapping_sub(a, b) == AddFrom(a, (0 .. 63) \ b, 0, 1)

\* value << n, the bits shifted out at the top dropped
ShiftLeft(x, n) == {i + n : i \in {j \in x : j + n <= 63}}

\* u64::wrapping_mul: the sum of the shifted copies of b for the bits of a
RECURSIVE wrapping_mul(_, _)
wrapping_mul(a, b) ==
    IF a = {} THEN {}
    ELSE AddFrom(ShiftLeft(b, Min(a)), wrapping_mul(a \ {Min(a)}, b), 0, 0)

\* a small u64 as usize
RECURSIVE AsUsize(_)
AsUsize(x) ==
    IF x = {} THEN 0
    ELSE 2 ^ Min(x) + AsUsize(x \ {Min(x)})

\* BitBoard::magic_hash_index
magic_hash_index(bb, magic, index_shift) ==
    AsUsize({i - index_shift :
                i \in {j \in wrapping_mul(bb, magic) : j >= index_shift}})

\* the u64 written as four 16-bit words, the highest first
U64(words) ==
    UNION {{16 * (4 - w) + i : i \in {j \in 0 .. 15 :
                                        (words[w] \div 2 ^ j) % 2 = 1}} :
           w \in 1 .. 4}

\* BitBoardSubSetsIterator::new
BitBoardSubSetsIterator_new(bitboard) ==
    [value |-> bitboard, subset |-> {}, finished |-> FALSE]

\* BitBoardSubSetsIterator::next: the item and the iterator after it
BitBoardSubSetsIterator_next(it) ==
    IF it.finished THEN [item |-> NoneOpt, it |-> it]
    ELSE LET subset == wrapping_sub(it.subset, it.value) \cap it.value
         IN  [item |-> Some(it.subset),
              it |-> [it EXCEPT !.subset = subset,
                                !.finished = (subset = {})]]

\* the entries of ROOK_MAGICS and BISHOP_MAGICS the tables are built with
\* here: (index_bits, magic) of a square
ROOK_MAGICS ==
    (9 :> <<10, U64(<<\h0082, \h0023, \h0201, \h4080>>)>>)

BISHOP_MAGICS ==
    (0 :> <<6, U64(<<\ha020, \h4102, \h0821, \h0220>>)>>)
    @@ (1 :> <<5, U64(<<\h0220, \h0404, \h0082, \h2000>>)>>)
    @@ (57 :> <<5, U64(<<\h4020, \h0064, \h8610, \h7088>>)>>)

\* the calls of try_make_magic_table: build_magic_tables with the tabulated
\* pair of the square, and try_find_magic_table with an index width and a
\* candidate magic that are not the tabulated ones of the square
MagicCalls ==
    {[slider |-> BISHOP, square |-> sq, index_bits |-> BISHOP_MAGICS[m][1],
      magic |-> BISHOP_MAGICS[m][2]] : sq \in {0, 1, 57}, m \in {0, 1, 57}}
    \cup {[slider |-> BISHOP, square |-> sq, index_bits |-> 4, magic |-> mg] :
            sq \in {0, 1}, mg \in {{}, {0}}}
    \cup {[slider |-> ROOK, square |-> 9, index_bits |-> ROOK_MAGICS[9][1],
           magic |-> mg] : mg \in {ROOK_MAGICS[9][2], BISHOP_MAGICS[0][2]}}

\* try_make_magic_table up to its loop
MagicStart(c) ==
    [op |-> "try_make_magic_table",
     slider |-> c.slider, square |-> c.square,
     blocker_mask |-> blocker_mask(c.slider, c.square),
     index_bits |-> c.index_bits, magic |-> c.magic,
     index_shift |-> 64 - c.index_bits,
     table |-> [i \in 0 .. 2 ^ c.index_bits - 1 |-> {}],
     it |-> BitBoardSubSetsIterator_new(blocker_mask(c.slider, c.square)),
     seen |-> <<>>, result |-> "running", lookup |-> NoneOpt]

InitMagic ==
    /\ board = starting_position
    /\ fen = <<>>
    /\ parsed = NotParsed
    /\ last = NoOp
    /\ saved = board
    /\ ops = 0
    /\ tt = [size |-> 0, entries |-> <<>>]
    /\ search = [max_depth |-> 0, last_pv |-> <<>>]
    /\ stored = <<>>
    /\ positions = {}
    /\ \E c \in MagicCalls : out = MagicStart(c)

\* the body of the loop without the test for a collision: the slot keeps
\* the attack set it got first
MagicEntryKeepsFirst(m, blockers) ==
    LET index == magic_hash_index(blockers, m.magic, m.index_shift)
    IN  IF m.table[index] = {}
        THEN [m EXCEPT !.table[index] =
                            SliderMoves(m.slider, m.square, blockers)]
        ELSE m

\* the body of the loop for one subset of the blocker mask
MagicEntry(m, blockers) ==
    LET moves == SliderMoves(m.slider, m.square, blockers)
        index == magic_hash_index(blockers, m.magic, m.index_shift)
    IN  IF m.table[index] = {}
        THEN [m EXCEPT !.table[index] = moves]
        ELSE IF m.table[index] # moves
        THEN [m EXCEPT !.result = "Err"]
        ELSE m

\* one turn of `for blockers in blocker_mask.subsets()`, and the Ok(table)
\* that follows the loop
MagicStep ==
    /\ out.result = "running"
    /\ LET n == BitBoardSubSetsIterator_next(out.it)
       IN  out' = IF n.item.tag = "None"
                  THEN [out EXCEPT !.result = "Ok"]
                  ELSE MagicEntry([out EXCEPT !.it = n.it,
                                              !.seen = Append(@, n.item.value)],
                                  n.item.value)
    /\ UNCHANGED <<board, last, saved, ops, fen, parsed, tt, search, stored,
                   positions>>

\* MagicBitBoardTable::get_moves of the table built
MagicBitBoardTable_get_moves(m, all_pieces) ==
    m.table[magic_hash_index(all_pieces \cap m.blocker_mask, m.magic,
                             m.index_shift)]

\* the occupancies looked up: any blockers of the mask, with nothing, with
\* the far ends of the rays, or with every other square occupied as well
Occupancies(m) ==
    {b \cup e : b \in SUBSET m.blocker_mask,
                e \in {{}, SliderMoves(m.slider, m.square, {}) \ m.blocker_mask,
                       Squares \ (m.blocker_mask \cup {m.square})}}

\* the first lookup in the table that has just been returned
MagicLookup ==
    /\ out.result = "Ok"
    /\ out.lookup.tag = "None"
    /\ \E occ \in Occupancies(out) :
            out' = [out EXCEPT !.lookup =
                        Some([occ |-> occ,
                              moves |-> MagicBitBoardTable_get_moves(out, occ)])]
    /\ UNCHANGED <<board, last, saved, ops, fen, parsed, tt, search, stored,
                   positions>>

NextMagic == MagicStep \/ MagicLookup

SpecMagic == InitMagic /\ [][NextMagic]_vars

\* the slots the subsets are hashed to
Slots(m, subsets) ==
    {magic_hash_index(b, m.magic, m.index_shift) : b \in subsets}

\* the slots with the attack sets that are hashed to them
SlotMoves(m, subsets) ==
    {<<magic_hash_index(b, m.magic, m.index_shift),
       SliderMoves(m.slider, m.square, b)>> : b \in subsets}

\* two of the subsets have different attack sets and the same slot
Collision(m, subsets) ==
    Cardinality(SlotMoves(m, subsets)) > Cardinality(Slots(m, subsets))

\* C24: try_make_magic_table visits the subsets of the blocker mask once
\* each, all 2^k of them when it comes to its end, and returns Ok exactly
\* when no two subsets with different attack sets have the same index;
\* the table it returns then gives, for every occupancy, the attack set of
\* the ray walk.
MagicTableIsPerfectHash ==
    out.op = "try_make_magic_table" =>
        /\ Cardinality(Range(out.seen)) = Len(out.seen)
        /\ Range(out.seen) \subseteq SUBSET out.blocker_mask
        /\ out.result = "Ok" /\ out.lookup.tag = "None" =>
            /\ Range(out.seen) = SUBSET out.blocker_mask
            /\ Len(out.seen) = 2 ^ Cardinality(out.blocker_mask)
            /\ ~Collision(out, SUBSET out.blocker_mask)
        /\ out.result = "Ok" /\ out.lookup.tag = "Some" =>
            out.lookup.value.moves
                = SliderMoves(out.slider, out.square, out.lookup.value.occ)
        /\ out.result = "Err" => Collision(out, SUBSET out.blocker_mask)

\* a table was returned in which two subsets share a slot, and a lookup
\* with pieces outside the mask was made in it
MagicTableIsPerfectHashWitness ==
    /\ out.op = "try_make_magic_table"
    /\ out.result = "Ok"
    /\ Cardinality(Slots(out, SUBSET out.blocker_mask))
        < 2 ^ Cardinality(out.blocker_mask)
    /\ out.lookup.tag = "Some"
    /\ ~(out.lookup.value.occ \subseteq out.blocker_mask)

\* a call has returned Err
MagicRejected == out.op = "try_make_magic_table" /\ out.result = "Err"

----------------------------------------------------------------------------
(* The piece sets of a Board in play                                        *)

\* the six piece-kind bitboards of a Board
KindBoards(b) == <<b.pawns, b.knights, b.bishops, b.rooks, b.queens, b.kings>>

\* C25: in every state reached by push and pop of legal moves, white_pieces
\* and black_pieces are disjoint, the six piece-kind bitboards are pairwise
\* disjoint, their union is white_pieces | black_pieces, and each side has
\* exactly one king.
PieceSetsConsistent ==
    /\ board.white_pieces \cap board.black_pieces = {}
    /\ \A i, j \in 1 .. 6 :
            i # j => KindBoards(board)[i] \cap KindBoards(board)[j] = {}
    /\ UNION Range(KindBoards(board)) = board.white_pieces \cup board.black_pieces
    /\ Cardinality(board.kings \cap board.white_pieces) = 1
    /\ Cardinality(board.kings \cap board.black_pieces) = 1

\* a capture has been pushed and popped again
PieceSetsConsistentWitness ==
    /\ last.op = "pop"
    /\ last.undoes_push
    /\ Cardinality(saved.white_pieces \cup saved.black_pieces)
        = Cardinality(board.white_pieces \cup board.black_pieces)
    /\ \E m \in Range(legal_moves(saved)) :
        /\ is_capture(m)
        /\ board = pop(push(saved, m))
        /\ SameWorkingBoard(board, saved)

----------------------------------------------------------------------------
(* The cached passed pawns                                                  *)

----------------------------------------------------------------------------
(* The en passant square                                                    *)

\* a pawn moves two ranks ahead without capturing
IsDoublePush(m) ==
    /\ m.kind = "Regular"
    /\ m.piece = "Pawn"
    /\ m.captured = "None"
    /\ file(m.from) = file(m.to)
    /\ \/ rank(m.from) = 1 /\ rank(m.to) = 3
       \/ rank(m.from) = 6 /\ rank(m.to) = 4

\* C27: after push(M) ep_square is the square M skipped when M is a pawn's
\* non-capturing move two ranks ahead from its starting rank, and None after
\* every other move; pop restores the ep_square from before the push.
EpSquareTracksDoublePush ==
    /\ last.op \in {"push", "push_uci"} /\ last.ok =>
            board.ep_square
                = IF IsDoublePush(LastPushed(board))
                  THEN {(LastPushed(board).from + LastPushed(board).to) \div 2}
                  ELSE {}
    /\ last.op = "pop" /\ last.undoes_push =>
            board.ep_square = saved.ep_square

\* a double push answered by a double push: the en passant square of the
\* first has made way for the one of the second
EpSquareTracksDoublePushWitness ==
    /\ last.op = "push"
    /\ IsDoublePush(LastPushed(board))
    /\ saved.ep_square # {}
    /\ board.ep_square # {}
    /\ board.ep_square # saved.ep_square

----------------------------------------------------------------------------
(* The repetition history along a game                                      *)
(*                                                                          *)
(* A game is a Board together with the driver's own count of how often each *)
(* hash is on the path from the initial position to the current one.        *)

\* how often the hash is on the path
OnPath(counts, h) == IF h \in DOMAIN counts THEN counts[h] ELSE 0

\* the path has one more position, or one less
PathAdd(counts, h, d) == (h :> OnPath(counts, h) + d) @@ counts

NewGame(b) == [board |-> b, on_path |-> PathAdd(<<>>, hash(b), 1)]

\* board.push_uci(uci_move) in the game
Played(g, uci_move) ==
    Only({[board |-> b, on_path |-> PathAdd(g.on_path, hash(b), 1)] :
            b \in {push_uci(g.board, uci_move).board}})

\* both king's knights go out and back
Cycle(g) ==
    Only({Played(c, "f6g8") :
            c \in {Played(b, "f3g1") :
                    b \in {Played(a, "g8f6") : a \in {Played(g, "g1f3")}}}})

\* n trips: the first half of them, then the rest
RECURSIVE Cycles(_, _)
Cycles(g, n) ==
    IF n = 0 THEN g
    ELSE IF n = 1 THEN Cycle(g)
    ELSE Only({Cycles(x, n - n \div 2) : x \in {Cycles(g, n \div 2)}})

\* the knights' trips of the long game the driver starts from
ShuffleCycles == 254

\* the operations the driver adds to a game
MaxHistoryOps == 6

\* a new game, or the long game as a build without overflow checks has it
\* (the half move clock has wrapped on the way, see ClockOverflows)
InitHistory ==
    /\ \E g \in {Cycles(NewGame(starting_position), n) :
                    n \in {0, ShuffleCycles}} :
        /\ board = g.board
        /\ out = [op |-> "history", on_path |-> g.on_path]
    /\ fen = <<>>
    /\ parsed = NotParsed
    /\ last = NoOp
    /\ saved = board
    /\ ops = 0
    /\ tt = [size |-> 0, entries |-> <<>>]
    /\ search = [max_depth |-> 0, last_pv |-> <<>>]
    /\ stored = <<>>
    /\ positions = {}

HistoryPushOf(moves, i, uci_move) ==
    /\ i # 0
    /\ \E r \in PushOutcomes(board, moves[i]) :
        /\ board' = r.board
        /\ last' = [op |-> IF r.tag = "Ok" THEN "push_uci" ELSE "abort",
                    uci |-> uci_move, ok |-> r.tag = "Ok", undoes_push |-> FALSE]
        /\ out' = IF r.tag = "Ok"
                  THEN [out EXCEPT !.on_path = PathAdd(@, hash(r.board), 1)]
                  ELSE out

\* push_uci of a knight move
HistoryKnight ==
    /\ ops < MaxHistoryOps
    /\ last.op # "abort"
    /\ \E uci_move \in KnightUci :
            HistoryPushOf(legal_moves(board),
                          FindUci(legal_moves(board), uci_move), uci_move)
    /\ saved' = board
    /\ ops' = ops + 1
    /\ UNCHANGED <<fen, parsed, tt, search, stored, positions>>

\* board.pop()
HistoryUndo ==
    /\ ops < MaxHistoryOps
    /\ last.op # "abort"
    /\ board' = pop(board)
    /\ last' = [op |-> "pop", uci |-> "", ok |-> TRUE,
                undoes_push |-> last.op \in {"push", "push_uci"} /\ last.ok]
    /\ out' = IF board.move_stack = <<>> THEN out
              ELSE [out EXCEPT !.on_path = PathAdd(@, hash(board), -1)]
    /\ ops' = ops + 1
    /\ UNCHANGED <<saved, fen, parsed, tt, search, stored, positions>>

NextHistory == HistoryKnight \/ HistoryUndo

SpecHistory == InitHistory /\ [][NextHistory]_vars

\* C29: hash_history is the multiset of the hashes of the positions on the
\* current path, the initial position and the position after each move on
\* the move stack: each count is the number of occurrences on the path, the
\* counts sum to len(move_stack) + 1, and no count is below zero.
HistoryIsPathMultiset ==
    out.op = "history" /\ last.op # "abort" =>
        /\ \A h \in DOMAIN board.hash_history \cup DOMAIN out.on_path :
            /\ HistoryCount(board.hash_history, h) = OnPath(out.on_path, h)
            /\ HistoryCount(board.hash_history, h) >= 0
        /\ SumOver(board.hash_history, DOMAIN board.hash_history)
            = Len(board.move_stack) + 1

----------------------------------------------------------------------------
(* The tagged score of _search against the negamax value of the node        *)

Greatest(S) == CHOOSE x \in S : \A y \in S : y <= x

\* the value of the quiescence tree of _qsearch below b: stalemate is 0, mate
\* is the evaluation, and out of check the side to move may stand pat
RECURSIVE QNegamax(_)
QNegamaxAt(b, checked, moves, searched) ==
    IF moves = <<>> THEN (IF checked THEN eval(b, checked, moves) ELSE 0)
    ELSE Greatest({-QNegamax(push(b, searched[i])) : i \in 1 .. Len(searched)}
                  \cup (IF checked THEN {} ELSE {eval(b, checked, moves)}))

QNegamaxOf(b, checked, moves) ==
    QNegamaxAt(b, checked, moves, QMoves(b, moves, checked))

QNegamax(b) == QNegamaxOf(b, is_in_check(b), legal_moves(b))

\* the value of the tree of _search below b at a depth
RECURSIVE Negamax(_, _)
NegamaxAt(b, depth, checked, moves) ==
    IF moves = <<>> THEN (IF checked THEN MATED ELSE 0)
    ELSE Greatest({-Negamax(push(b, moves[i]), depth - 1) : i \in 1 .. Len(moves)})

Negamax(b, depth) ==
    IF depth = 0 THEN QNegamax(b)
    ELSE NegamaxAt(b, depth, is_in_check(b), legal_moves(b))

\* the side to move can stalemate a king whose side is two pawns to one ahead
FenStalemateAhead ==
    <<"k", "7", "/", "p", "7", "/", "p", "2", "K", "4", "/", "P", "7", "/",
      "8", "/", "8", "/", "8", "/", "8", " ", "w", " ", "-", " ", "-", " ",
      "0", " ", "1">>

NegamaxFens == {FenRookMate, FenPawnEnding, FenStalemateAhead}

\* the bounds of the windows, besides the full window
WindowEdge == 50

Windows ==
    {w \in {-I16_MAX, -WindowEdge, 0, WindowEdge, I16_MAX}
           \X {-I16_MAX, -WindowEdge, 0, WindowEdge, I16_MAX} : w[1] < w[2]}

InitNegamax ==
    /\ \E t \in NegamaxFens :
        /\ fen = t
        /\ parsed = parse_fen(t)
        /\ board = parsed.board
    /\ last = NoOp
    /\ saved = board
    /\ ops = 0
    /\ tt = TranspositionTable_new(0)
    /\ search = [max_depth |-> 0, last_pv |-> <<>>]
    /\ out = [op |-> "none"]
    /\ stored = <<>>
    /\ positions = {}

\* one call of _search at the root of a new Search with an empty table
NegamaxDone(depth, alpha, beta, r) ==
    out' = [op |-> "_search", depth |-> depth, alpha |-> alpha, beta |-> beta,
            score |-> r.score, value |-> Negamax(board, depth)]

NegamaxRun ==
    /\ out.op = "none"
    /\ \E depth \in 0 .. MaxDepth : \E w \in Windows :
            NegamaxDone(depth, w[1], w[2],
                        _search(SearchStart(depth, <<>>, board,
                                            TranspositionTable_new(0)),
                                depth, 0, w[1], w[2]))
    /\ UNCHANGED <<board, last, saved, ops, tt, search, fen, parsed, stored,
                   positions>>

\* the moves played before the call
MaxNegamaxPlies == 1

NegamaxPlay ==
    /\ out.op = "none"
    /\ ops < MaxNegamaxPlies
    /\ SearchPlay

NextNegamax == NegamaxRun \/ NegamaxPlay

SpecNegamax == InitNegamax /\ [][NextNegamax]_vars

\* C28: with an empty table the tagged score of _search for a window agrees
\* with the negamax value v of the node at that depth: Exact(s) has s = v,
\* LowerBound(s) has v >= s, UpperBound(s) has v <= s, and the full window
\* gives Exact(v); negation swaps LowerBound and UpperBound
ScoreAgreesWithNegamax ==
    /\ out.op = "_search" =>
        /\ ScoresAs(out.score, out.value)
        /\ (out.alpha = -I16_MAX /\ out.beta = I16_MAX
                => out.score = Exact(out.value))
    /\ \A s \in {-WindowEdge, 0, WindowEdge} :
        /\ NegScore(LowerBound(s)) = UpperBound(-s)
        /\ NegScore(UpperBound(s)) = LowerBound(-s)
        /\ NegScore(Exact(s)) = Exact(-s)

----------------------------------------------------------------------------
(* The UCI session (uci.rs): board is the session's position, tt its table  *)

\* [&str]::join(sep)
RECURSIVE join(_, _)
join(tokens, sep) ==
    IF tokens = <<>> THEN <<>>
    ELSE IF Len(tokens) = 1 THEN tokens[1]
    ELSE tokens[1] \o <<sep>> \o join(Tail(tokens), sep)

\* the &str of a token as the string push_uci compares
RECURSIVE AsStr(_)
AsStr(t) == IF t = <<>> THEN "" ELSE Head(t) \o AsStr(Tail(t))

\* the depth of the search of a go command (MAX_DEPTH_DEFAULT in the source)
GoDepth == 1

\* the key bits of the session's table (TT_BITS_DEFAULT in the source)
SessionTtBits == 0

\* for &uci_move in args[2..].iter() { position.push_uci(uci_move)? }: the
\* position after the moves from the i-th on, or Err at the first refused
RECURSIVE PushUciAll(_, _, _)
PushUciStep(r, args, i) ==
    IF r.tag = "Err" THEN r ELSE PushUciAll(r.board, args, i + 1)

PushUciAll(position, args, i) ==
    IF i > Len(args) THEN [tag |-> "Ok", board |-> position]
    ELSE PushUciStep(push_uci(position, AsStr(args[i])), args, i)

\* the moves up to the first refused one stay applied
StartposKeepsPrefix(old, r) == r.board

\* "startpos": self.position = position unless a move was refused
StartposResult(old, r) == IF r.tag = "Err" THEN old ELSE r.board

handle_position_startpos(old, args) ==
    StartposResult(old,
        IF Len(args) > 1 /\ args[2] = <<"m", "o", "v", "e", "s">>
        THEN PushUciAll(starting_position, args, 3)
        ELSE [tag |-> "Ok", board |-> starting_position])

\* "fen": match Board::parse_fen(fen.as_str()) { Ok(position) => .., Err(_) => .. }
FenResult(old, r) ==
    CASE r.tag = "Ok" -> [running |-> TRUE, position |-> r.board]
      [] r.tag = "Err" -> [running |-> TRUE, position |-> old]
      [] OTHER -> [running |-> FALSE, position |-> old]

\* handle_position_command(args): the session's position afterwards and
\* whether the session still runs (args[0] of no arguments aborts)
handle_position_command(old, args) ==
    IF args = <<>> THEN [running |-> FALSE, position |-> old]
    ELSE IF args[1] = <<"s", "t", "a", "r", "t", "p", "o", "s">>
    THEN [running |-> TRUE, position |-> handle_position_startpos(old, args)]
    ELSE IF args[1] = <<"f", "e", "n">>
    THEN FenResult(old, parse_fen(join(Tail(args), " ")))
    ELSE [running |-> TRUE, position |-> old]

UciWords(line) == SplitOn(line, " ")

StartposLine == <<"p", "o", "s", "i", "t", "i", "o", "n", " ",
                  "s", "t", "a", "r", "t", "p", "o", "s">>

MovesWord == <<" ", "m", "o", "v", "e", "s">>

FenLine == <<"p", "o", "s", "i", "t", "i", "o", "n", " ", "f", "e", "n", " ">>

\* seven ranks; no FEN at all; a half move clock beyond u8
FenSevenRanks ==
    <<"k", "7", "/", "8", "/", "8", "/", "8", "/", "8", "/", "8", "/",
      "K", "7", " ", "w", " ", "-", " ", "-", " ", "0", " ", "1">>

FenNoFen == <<"s", "t", "a", "r", "t">>

FenClock256 ==
    <<"k", "1", "K", "5", "/", "8", "/", "8", "/", "8", "/", "8", "/", "8", "/",
      "8", "/", "7", "R", " ", "w", " ", "-", " ", "-", " ",
      "2", "5", "6", " ", "1">>

\* the move lists of the position commands: legal, refused at the first,
\* the second and the third move
UciMoveLists ==
    {<<" ", "e", "2", "e", "4">>, <<" ", "g", "1", "f", "3">>,
     <<" ", "e", "2", "e", "4", " ", "e", "7", "e", "5">>,
     <<" ", "e", "2", "e", "5">>,
     <<" ", "e", "2", "e", "4", " ", "e", "2", "e", "4">>,
     <<" ", "e", "2", "e", "4", " ", "e", "7", "e", "5", " ", "e", "4", "e", "5">>}

UciLines ==
    {<<"u", "c", "i", "n", "e", "w", "g", "a", "m", "e">>, <<"g", "o">>,
     <<"i", "s", "r", "e", "a", "d", "y">>, <<"s", "t", "o", "p">>,
     StartposLine}
    \cup {StartposLine \o MovesWord \o l : l \in UciMoveLists}
    \cup {FenLine \o t : t \in {FenRookMate, FenPawnEnding, FenSevenRanks,
                                 FenNoFen, FenClock256}}

\* UciSession::new
InitUci ==
    /\ board = starting_position
    /\ tt = TranspositionTable_new(SessionTtBits)
    /\ out = [op |-> "uci", running |-> TRUE, bestmove |-> NoneOpt]
    /\ last = [op |-> "new", command |-> <<>>]
    /\ saved = board
    /\ ops = 0
    /\ search = [max_depth |-> 0, last_pv |-> <<>>]
    /\ fen = <<>>
    /\ parsed = NotParsed
    /\ stored = <<>>
    /\ positions = {}

\* the commands of a session
MaxUciOps == 2

\* handle_ucinewgame_command
UciNewGame ==
    /\ board' = starting_position
    /\ tt' = tt_clear(tt)
    /\ out' = [out EXCEPT !.bestmove = NoneOpt]

\* handle_position_command and what a panic leaves
UciPositionDone(r) ==
    /\ board' = r.position
    /\ out' = [out EXCEPT !.running = r.running, !.bestmove = NoneOpt]
    /\ UNCHANGED tt

\* handle_go_command: Search::new(..).search(&self.position, &mut self.tt)
UciGoDone(st) ==
    /\ tt' = st.tt
    /\ out' = [out EXCEPT !.bestmove = First(st.last_pv)]
    /\ UNCHANGED board

\* handle_command: match tokens[0] { .. }
UciHandle(tokens) ==
    CASE tokens[1] = <<"u", "c", "i", "n", "e", "w", "g", "a", "m", "e">> ->
            UciNewGame
      [] tokens[1] = <<"p", "o", "s", "i", "t", "i", "o", "n">> ->
            UciPositionDone(handle_position_command(board, Tail(tokens)))
      [] tokens[1] = <<"g", "o">> ->
            UciGoDone(Search_search(GoDepth, <<>>, board, tt))
      [] OTHER ->
            /\ out' = [out EXCEPT !.bestmove = NoneOpt]
            /\ UNCHANGED <<board, tt>>

\* one line of the input of run()
UciCommand ==
    /\ ops < MaxUciOps
    /\ out.running
    /\ \E line \in UciLines :
        /\ UciHandle(UciWords(line))
        /\ last' = [op |-> "command", command |-> line]
    /\ saved' = board
    /\ ops' = ops + 1
    /\ UNCHANGED <<search, fen, parsed, stored, positions>>

NextUci == UciCommand

SpecUci == InitUci /\ [][NextUci]_vars

\* every move of the list is legal where it is played
RECURSIVE UciLineLegal(_, _)
UciLineLegal(b, ucis) ==
    \/ ucis = <<>>
    \/ \E m \in Range(legal_moves(b)) :
        /\ to_uci_string(m) = AsStr(Head(ucis))
        /\ UciLineLegal(push(b, m), Tail(ucis))

\* the last command was "position startpos moves" with this list of moves
LastMoves(l) == last.op = "command" /\ last.command = StartposLine \o MovesWord \o l

LastFen(t) == last.op = "command" /\ last.command = FenLine \o t

LastWord(w) == last.op = "command" /\ last.command = w

TableIsClear == \A i \in DOMAIN tt.entries : tt.entries[i] = TTEntry_empty

\* C30: a "position startpos moves" command with an illegal move and a
\* "position fen" command whose FEN fails to parse leave the session's
\* position as it was, with no prefix of the moves applied; "go" does not
\* change the position; "ucinewgame" sets the starting position and clears
\* the transposition table
SessionPositionContract ==
    /\ \A l \in UciMoveLists :
        LastMoves(l) /\ ~UciLineLegal(starting_position, Tail(SplitOn(l, " ")))
            => board = saved
    /\ \A t \in {FenRookMate, FenPawnEnding, FenSevenRanks, FenNoFen, FenClock256} :
        LastFen(t) /\ parse_fen(t).tag = "Err" => board = saved /\ out.running
    /\ LastWord(<<"g", "o">>) => board = saved
    /\ LastWord(<<"u", "c", "i", "n", "e", "w", "g", "a", "m", "e">>)
            => board = starting_position /\ TableIsClear

\* a list refused at its third move, sent when the position was another
\* than the starting one
SessionRefusedMoveWitness ==
    /\ LastMoves(<<" ", "e", "2", "e", "4", " ", "e", "7", "e", "5", " ",
                   "e", "4", "e", "5">>)
    /\ board = saved
    /\ board # starting_position

=============================================================================
